---------------------------- MODULE Spec2Model ----------------------------
(***************************************************************************)
(* Command dispatch and authorization runtime of the async Zulip bot SDK:  *)
(* the message parser (bot_sdk/commands.py), the permission level          *)
(* resolver and the event pipeline (bot_sdk/bot.py) and the bounded        *)
(* concurrency runner (bot_sdk/runner.py).                                 *)
(*                                                                         *)
(* Message text is a sequence of lexemes: a lexeme is a run of characters  *)
(* that the parser never looks inside (a word, the prefix character, a     *)
(* mention alias, one separator character or one blank).                   *)
(***************************************************************************)
EXTENDS Integers, Sequences, FiniteSets, TLC

VARIABLES
    role_levels,     \* settings.role_levels: role name -> level
    owner_user_id,   \* settings.owner_user_id
    acl_stop,        \* storage key "acl.stop"
    sem_value,       \* BotRunner._semaphore._value
    waiters,         \* BotRunner._semaphore._waiters (FIFO of unit ids)
    tasks,           \* BotRunner._tasks
    units,           \* every task created by _handle_event, in arrival order
    max_concurrency, \* BotRunner._max_concurrency
    stop_pc,         \* position of BotRunner.stop()
    gathered,        \* the tasks handed to asyncio.gather by stop()
    intake,          \* position of call_on_each_event
    lv_in,           \* inputs of one _compute_user_level call
    lv_out,          \* its result
    startup,         \* BotRunner.client, BotRunner.bot and the position of start()
    parser,          \* a CommandParser
    p_call,          \* the last call made on the parser and what it returned
    group,           \* run_all_bots: its position, its runners and their run loops
    db               \* a bot class, its instance's paths and what the migration resolved

vars == <<role_levels, owner_user_id, acl_stop, sem_value, waiters, tasks,
          units, max_concurrency, stop_pc, gathered, intake, lv_in, lv_out,
          startup, parser, p_call,
          group, db>>

----------------------------------------------------------------------------
(* Bounds of the model *)

MaxEvents == 3
MaxConc == 2
MaxAuthEvents == 2
MaxDispatchEvents == 2
MaxStopEvents == 2
MaxAliases == 5

----------------------------------------------------------------------------
(* Text helpers *)

SP == " "

NoneVal == [t |-> "none"]

\* str.lower() on the words of the model's vocabulary
Lower(w) ==
    CASE w = "STOP" -> "stop"
      [] w = "Perm" -> "perm"
      [] w = "@**Bot**" -> "@**bot**"
      [] w = "@Bot" -> "@bot"
      [] OTHER -> w

RECURSIVE lstrip(_, _)
lstrip(text, chars) ==
    IF text # <<>> /\ Head(text) \in chars THEN lstrip(Tail(text), chars) ELSE text

RECURSIVE rstrip(_, _)
rstrip(text, chars) ==
    IF text # <<>> /\ text[Len(text)] \in chars
    THEN rstrip(SubSeq(text, 1, Len(text) - 1), chars)
    ELSE text

\* str.strip()
strip(text) == rstrip(lstrip(text, {SP}), {SP})

\* str.split(): the maximal runs of non-blank lexemes, each run one token
RECURSIVE split(_)
split(text) ==
    IF text = <<>> THEN <<>>
    ELSE IF Head(text) = SP THEN split(Tail(text))
    ELSE LET rest == split(Tail(text))
         IN  IF Len(text) > 1 /\ text[2] # SP
             THEN <<Head(text) \o Head(rest)>> \o Tail(rest)
             ELSE <<Head(text)>> \o rest

\* int(value): the numerals of the vocabulary
IsIntTok(w) == w \in {"0", "2", "3", "5", "60", "300", "-5"}

IntOf(w) ==
    CASE w = "0" -> 0
      [] w = "2" -> 2
      [] w = "3" -> 3
      [] w = "5" -> 5
      [] w = "60" -> 60
      [] w = "300" -> 300
      [] w = "-5" -> 0 - 5
      [] OTHER -> 0

----------------------------------------------------------------------------
(* bot_sdk/commands.py *)

\* min_level is None, or <<L>> for the level L
NullLevel == <<>>
NoHandler == "None"

CommandArgument(name, type, required, multiple) ==
    [name |-> name, type |-> type, required |-> required, multiple |-> multiple]

\* A CommandSpec as BaseBot builds and reads it: on_event reads min_level
\* with getattr(spec, "min_level", None).
CommandSpec(name, args, aliases, allow_extra, handler, show_in_help, min_level) ==
    [name |-> name, args |-> args, aliases |-> aliases,
     allow_extra |-> allow_extra, handler |-> handler,
     show_in_help |-> show_in_help, min_level |-> min_level]

\* dict.get(key, default) on a function used as a dict
Get(d, k, default) == IF k \in DOMAIN d THEN d[k] ELSE default

\* d[k] = v
Put(d, k, v) == [x \in DOMAIN d \cup {k} |-> IF x = k THEN v ELSE d[x]]

RECURSIVE PutAll(_, _, _)
PutAll(d, keys, v) ==
    IF keys = <<>> THEN d ELSE PutAll(Put(d, Head(keys), v), Tail(keys), v)

\* CommandParser.register_spec
register_spec(p, spec) ==
    [p EXCEPT !.specs = Put(p.specs, spec.name, spec),
              !.names = IF spec.name \in DOMAIN p.specs THEN @ ELSE Append(@, spec.name),
              !.alias_index = PutAll(p.alias_index, spec.aliases, spec.name)]

RECURSIVE LowerNonEmpty(_)
LowerNonEmpty(aliases) ==
    IF aliases = <<>> THEN <<>>
    ELSE IF Head(aliases) = "" THEN LowerNonEmpty(Tail(aliases))
    ELSE <<Lower(Head(aliases))>> \o LowerNonEmpty(Tail(aliases))

\* CommandParser.set_mentions
set_mentions(p, aliases) == [p EXCEPT !.mention_aliases = LowerNonEmpty(aliases)]

\* add_identity_aliases that assigns the list where the code extends it
add_identity_aliases_assigns(p, full_name, email, extra) ==
    LET a1 == IF full_name # "" THEN <<"@**" \o full_name \o "**", "@" \o full_name>> ELSE <<>>
        a2 == IF email # "" THEN <<"@" \o email>> ELSE <<>>
    IN  [p EXCEPT !.mention_aliases = LowerNonEmpty(a1 \o a2 \o extra)]

\* CommandParser.add_identity_aliases; "" stands for an absent name or email
add_identity_aliases(p, full_name, email, extra) ==
    LET a1 == IF full_name # "" THEN <<"@**" \o full_name \o "**", "@" \o full_name>> ELSE <<>>
        a2 == IF email # "" THEN <<"@" \o email>> ELSE <<>>
    IN  [p EXCEPT !.mention_aliases = @ \o LowerNonEmpty(a1 \o a2 \o extra)]

HelpSpec == CommandSpec("help", <<>>, <<"?">>, FALSE, "_handle_help", TRUE, NullLevel)

\* CommandParser.__init__ (no specs argument)
CommandParser(prefixes, enable_mentions, mention_aliases, auto_help) ==
    LET p0 == [prefixes |-> prefixes, enable_mentions |-> enable_mentions,
               mention_aliases |-> <<>>, specs |-> <<>>, names |-> <<>>,
               alias_index |-> <<>>]
        p1 == IF mention_aliases # <<>> THEN set_mentions(p0, mention_aliases) ELSE p0
    IN  IF auto_help /\ "help" \notin DOMAIN p1.specs THEN register_spec(p1, HelpSpec) ELSE p1

\* The first prefix (alias) the text starts with, as <<prefix>>, or <<>>
RECURSIVE FirstPrefix(_, _)
FirstPrefix(prefixes, text) ==
    IF prefixes = <<>> THEN <<>>
    ELSE IF text # <<>> /\ Head(text) = Head(prefixes) THEN <<Head(prefixes)>>
    ELSE FirstPrefix(Tail(prefixes), text)

RECURSIVE FirstAlias(_, _)
FirstAlias(aliases, text) ==
    IF aliases = <<>> THEN <<>>
    ELSE IF text # <<>> /\ Lower(Head(text)) = Head(aliases) THEN <<Head(aliases)>>
    ELSE FirstAlias(Tail(aliases), text)

MentionSeparators == {" ", ":", ",", "-"}

\* _strip_prefix_or_mention that tries the aliases whatever enable_mentions is
strip_prefix_or_mention_any_mode(p, text) ==
    IF FirstPrefix(p.prefixes, text) # <<>>
    THEN [is_none |-> FALSE, text |-> strip(Tail(text))]
    ELSE IF p.mention_aliases # <<>> /\ FirstAlias(p.mention_aliases, text) # <<>>
         THEN [is_none |-> FALSE, text |-> lstrip(Tail(text), MentionSeparators)]
    ELSE [is_none |-> TRUE, text |-> <<>>]

\* CommandParser._strip_prefix_or_mention: is_none stands for the None result,
\* text is the text after the opener
strip_prefix_or_mention(p, text) ==
    IF FirstPrefix(p.prefixes, text) # <<>>
    THEN [is_none |-> FALSE, text |-> strip(Tail(text))]
    ELSE IF p.enable_mentions /\ p.mention_aliases # <<>>
            /\ FirstAlias(p.mention_aliases, text) # <<>>
         THEN [is_none |-> FALSE, text |-> lstrip(Tail(text), MentionSeparators)]
    ELSE [is_none |-> TRUE, text |-> <<>>]

\* CommandParser._to_bool
to_bool(value) ==
    IF Lower(value) \in {"true", "1", "yes", "y", "on"} THEN [ok |-> TRUE, val |-> TRUE]
    ELSE IF Lower(value) \in {"false", "0", "no", "n", "off"} THEN [ok |-> TRUE, val |-> FALSE]
    ELSE [ok |-> FALSE, val |-> FALSE]

\* CommandParser._convert_value
convert_value(value, arg_spec) ==
    LET bad == [ok |-> FALSE, err |-> "InvalidArgumentsError", command |-> arg_spec.name,
                msg |-> "Invalid value for " \o arg_spec.name]
    IN  CASE arg_spec.type = "bool" ->
               IF to_bool(value).ok
               THEN [ok |-> TRUE, val |-> [t |-> "bool", b |-> to_bool(value).val]]
               ELSE bad
          [] arg_spec.type = "int" ->
               IF IsIntTok(value) THEN [ok |-> TRUE, val |-> [t |-> "int", n |-> IntOf(value)]]
               ELSE bad
          [] arg_spec.type = "float" ->
               IF IsIntTok(value) THEN [ok |-> TRUE, val |-> [t |-> "float", n |-> IntOf(value)]]
               ELSE bad
          [] OTHER -> [ok |-> TRUE, val |-> [t |-> "str", s |-> value]]

RECURSIVE ConvertAll(_, _)
ConvertAll(tokens, arg_spec) ==
    IF tokens = <<>> THEN [ok |-> TRUE, vals |-> <<>>]
    ELSE LET c == convert_value(Head(tokens), arg_spec)
             r == ConvertAll(Tail(tokens), arg_spec)
         IN  IF ~c.ok THEN c
             ELSE IF ~r.ok THEN r
             ELSE [ok |-> TRUE, vals |-> <<c.val>> \o r.vals]

\* The loop of _parse_args that leaves out an optional argument with no token
\* where the code binds it to None
RECURSIVE BindArgs_skips_missing(_, _, _, _, _)
BindArgs_skips_missing(args_tokens, spec, i, idx, parsed) ==
    IF i > Len(spec.args) THEN [ok |-> TRUE, idx |-> idx, args |-> parsed]
    ELSE LET arg_spec == spec.args[i] IN
         IF arg_spec.multiple
         THEN LET r == ConvertAll(SubSeq(args_tokens, idx + 1, Len(args_tokens)), arg_spec)
              IN  IF r.ok
                  THEN [ok |-> TRUE, idx |-> Len(args_tokens),
                        args |-> Put(parsed, arg_spec.name, [t |-> "list", l |-> r.vals])]
                  ELSE r
         ELSE IF idx >= Len(args_tokens)
         THEN IF arg_spec.required
              THEN [ok |-> FALSE, err |-> "InvalidArgumentsError", command |-> spec.name,
                    msg |-> "Missing argument: " \o arg_spec.name]
              ELSE BindArgs_skips_missing(args_tokens, spec, i + 1, idx, parsed)
         ELSE LET c == convert_value(args_tokens[idx + 1], arg_spec)
              IN  IF c.ok
                  THEN BindArgs_skips_missing(args_tokens, spec, i + 1, idx + 1,
                                              Put(parsed, arg_spec.name, c.val))
                  ELSE c

\* The loop of CommandParser._parse_args from declaration i on, idx tokens consumed
\* The loop of _parse_args that leaves the token index where it was at a
\* capture-remaining argument
RECURSIVE BindArgs_capture_keeps_idx(_, _, _, _, _)
BindArgs_capture_keeps_idx(args_tokens, spec, i, idx, parsed) ==
    IF i > Len(spec.args) THEN [ok |-> TRUE, idx |-> idx, args |-> parsed]
    ELSE LET arg_spec == spec.args[i] IN
         IF arg_spec.multiple
         THEN LET r == ConvertAll(SubSeq(args_tokens, idx + 1, Len(args_tokens)), arg_spec)
              IN  IF r.ok
                  THEN [ok |-> TRUE, idx |-> idx,
                        args |-> Put(parsed, arg_spec.name, [t |-> "list", l |-> r.vals])]
                  ELSE r
         ELSE IF idx >= Len(args_tokens)
         THEN IF arg_spec.required
              THEN [ok |-> FALSE, err |-> "InvalidArgumentsError", command |-> spec.name,
                    msg |-> "Missing argument: " \o arg_spec.name]
              ELSE BindArgs_capture_keeps_idx(args_tokens, spec, i + 1, idx, Put(parsed, arg_spec.name, NoneVal))
         ELSE LET c == convert_value(args_tokens[idx + 1], arg_spec)
              IN  IF c.ok
                  THEN BindArgs_capture_keeps_idx(args_tokens, spec, i + 1, idx + 1, Put(parsed, arg_spec.name, c.val))
                  ELSE c

\* The loop of _parse_args without the break at a capture-remaining argument
RECURSIVE BindArgs_goes_on_after_capture(_, _, _, _, _)
BindArgs_goes_on_after_capture(args_tokens, spec, i, idx, parsed) ==
    IF i > Len(spec.args) THEN [ok |-> TRUE, idx |-> idx, args |-> parsed]
    ELSE LET arg_spec == spec.args[i] IN
         IF arg_spec.multiple
         THEN LET r == ConvertAll(SubSeq(args_tokens, idx + 1, Len(args_tokens)), arg_spec)
              IN  IF r.ok
                  THEN BindArgs_goes_on_after_capture(args_tokens, spec, i + 1, Len(args_tokens),
                            Put(parsed, arg_spec.name, [t |-> "list", l |-> r.vals]))
                  ELSE r
         ELSE IF idx >= Len(args_tokens)
         THEN IF arg_spec.required
              THEN [ok |-> FALSE, err |-> "InvalidArgumentsError", command |-> spec.name,
                    msg |-> "Missing argument: " \o arg_spec.name]
              ELSE BindArgs_goes_on_after_capture(args_tokens, spec, i + 1, idx, Put(parsed, arg_spec.name, NoneVal))
         ELSE LET c == convert_value(args_tokens[idx + 1], arg_spec)
              IN  IF c.ok
                  THEN BindArgs_goes_on_after_capture(args_tokens, spec, i + 1, idx + 1, Put(parsed, arg_spec.name, c.val))
                  ELSE c

RECURSIVE BindArgs(_, _, _, _, _)
BindArgs(args_tokens, spec, i, idx, parsed) ==
    IF i > Len(spec.args) THEN [ok |-> TRUE, idx |-> idx, args |-> parsed]
    ELSE LET arg_spec == spec.args[i] IN
         IF arg_spec.multiple
         THEN LET r == ConvertAll(SubSeq(args_tokens, idx + 1, Len(args_tokens)), arg_spec)
              IN  IF r.ok
                  THEN [ok |-> TRUE, idx |-> Len(args_tokens),
                        args |-> Put(parsed, arg_spec.name, [t |-> "list", l |-> r.vals])]
                  ELSE r
         ELSE IF idx >= Len(args_tokens)
         THEN IF arg_spec.required
              THEN [ok |-> FALSE, err |-> "InvalidArgumentsError", command |-> spec.name,
                    msg |-> "Missing argument: " \o arg_spec.name]
              ELSE BindArgs(args_tokens, spec, i + 1, idx, Put(parsed, arg_spec.name, NoneVal))
         ELSE LET c == convert_value(args_tokens[idx + 1], arg_spec)
              IN  IF c.ok
                  THEN BindArgs(args_tokens, spec, i + 1, idx + 1, Put(parsed, arg_spec.name, c.val))
                  ELSE c

\* _parse_args without its test for tokens left over
parse_args_keeps_extra(args_tokens, spec) ==
    LET b == BindArgs(args_tokens, spec, 1, 0, <<>>)
    IN  IF ~b.ok THEN b ELSE [ok |-> TRUE, args |-> b.args]

\* CommandParser._parse_args
parse_args(args_tokens, spec) ==
    LET b == BindArgs(args_tokens, spec, 1, 0, <<>>)
    IN  IF ~b.ok THEN b
        ELSE IF ~spec.allow_extra /\ b.idx < Len(args_tokens)
        THEN [ok |-> FALSE, err |-> "InvalidArgumentsError", command |-> spec.name,
              msg |-> "Too many arguments"]
        ELSE [ok |-> TRUE, args |-> b.args]

\* The name lookup shared by parse_text and the pre-check of on_event
resolve_name(p, name_token) == Get(p.alias_index, Lower(name_token), Lower(name_token))

\* parse_text that returns None when no token follows the opener
parse_text_empty_is_none(p, text) ==
    LET tokens == split(text) IN
    IF tokens = <<>>
    THEN [kind |-> "none"]
    ELSE LET command_name == resolve_name(p, tokens[1]) IN
         IF command_name \notin DOMAIN p.specs
         THEN [kind |-> "error", err |-> "UnknownCommandError",
               msg |-> "Unknown command: " \o command_name]
         ELSE LET spec == p.specs[command_name]
                  a == parse_args(Tail(tokens), spec)
              IN  IF a.ok
                  THEN [kind |-> "ok", name |-> spec.name, args |-> a.args,
                        tokens |-> tokens, spec |-> spec]
                  ELSE [kind |-> "error", err |-> a.err, msg |-> a.msg]

\* CommandParser.parse_text: an invocation (kind "ok") or a raised error
parse_text(p, text) ==
    LET tokens == split(text) IN
    IF tokens = <<>>
    THEN [kind |-> "error", err |-> "CommandError", msg |-> "Empty command"]
    ELSE LET command_name == resolve_name(p, tokens[1]) IN
         IF command_name \notin DOMAIN p.specs
         THEN [kind |-> "error", err |-> "UnknownCommandError",
               msg |-> "Unknown command: " \o command_name]
         ELSE LET spec == p.specs[command_name]
                  a == parse_args(Tail(tokens), spec)
              IN  IF a.ok
                  THEN [kind |-> "ok", name |-> spec.name, args |-> a.args,
                        tokens |-> tokens, spec |-> spec]
                  ELSE [kind |-> "error", err |-> a.err, msg |-> a.msg]

\* parse_message that parses a text that has no opener as a command
parse_message_without_opener(p, content) ==
    LET text == strip(content) IN
    IF text = <<>> THEN [kind |-> "none"]
    ELSE LET stripped == strip_prefix_or_mention(p, text) IN
         IF stripped.is_none THEN parse_text(p, text)
         ELSE parse_text(p, stripped.text)

\* CommandParser.parse_message: kind "none" is the None result
parse_message(p, content) ==
    LET text == strip(content) IN
    IF text = <<>> THEN [kind |-> "none"]
    ELSE LET stripped == strip_prefix_or_mention(p, text) IN
         IF stripped.is_none THEN [kind |-> "none"]
         ELSE parse_text(p, stripped.text)

----------------------------------------------------------------------------
(* bot_sdk/bot.py: configuration, registry and permission level *)

BotUserId == 1
DefaultUserLevel == 1
DefaultAdminLevel == 50
DefaultOwnerLevel == 100
DefaultBotOwnerLevel == 200

\* The role levels used when the settings name none
DefaultRoleLevels ==
    [r \in {"user", "admin", "owner", "bot_owner"} |->
        CASE r = "user" -> DefaultUserLevel
          [] r = "admin" -> DefaultAdminLevel
          [] r = "owner" -> DefaultOwnerLevel
          [] OTHER -> DefaultBotOwnerLevel]

Max(a, b) == IF a >= b THEN a ELSE b

\* _compute_user_level up to its first await: the base level and the bot owner
level_local(rl, owner, user_id) ==
    LET level == Get(rl, "user", DefaultUserLevel) IN
    IF owner # 0 /\ user_id = owner
    THEN Max(level, Get(rl, "bot_owner", DefaultBotOwnerLevel))
    ELSE level

\* _compute_user_level from the remote queries on: is_owner and is_admin are
\* the answers of perms.is_owner and perms.is_admin, "yes", "no" or "raise";
\* is_admin is only asked when is_owner answered "no"
level_remote(level, rl, perms, is_owner, is_admin) ==
    IF ~perms THEN level
    ELSE IF is_owner = "raise" THEN level
    ELSE IF is_owner = "yes" THEN Max(level, Get(rl, "owner", DefaultOwnerLevel))
    ELSE IF is_admin = "raise" THEN level
    ELSE IF is_admin = "yes" THEN Max(level, Get(rl, "admin", DefaultAdminLevel))
    ELSE level

\* The same resumption with the try/except of lines 438-445 taken away: an
\* exception of a remote query leaves the call
compute_user_level_resume_no_try(level, rl, perms, is_owner, is_admin) ==
    [raised |-> perms /\ (is_owner = "raise" \/ (is_owner = "no" /\ is_admin = "raise")),
     level |-> level_remote(level, rl, perms, is_owner, is_admin)]

\* _compute_user_level resumed from its await with the level it had reached:
\* raised tells whether the call raises
compute_user_level_resume(level, rl, perms, is_owner, is_admin) ==
    [raised |-> FALSE, level |-> level_remote(level, rl, perms, is_owner, is_admin)]

\* BaseBot._compute_user_level under one configuration
compute_user_level(rl, owner, perms, user_id, is_owner, is_admin) ==
    compute_user_level_resume(level_local(rl, owner, user_id), rl, perms, is_owner, is_admin)

\* BaseBot._register_commands: whoami, perm and stop, then the subclass hook
register_commands(p, rl) ==
    LET whoami == CommandSpec("whoami", <<>>, <<>>, FALSE, "_handle_whoami", TRUE, NullLevel)
        perm == CommandSpec("perm",
                    <<CommandArgument("action", "str", TRUE, FALSE),
                      CommandArgument("arg1", "str", FALSE, FALSE),
                      CommandArgument("arg2", "str", FALSE, FALSE)>>,
                    <<>>, FALSE, "_handle_perm", TRUE,
                    <<Get(rl, "bot_owner", DefaultBotOwnerLevel)>>)
        stop == CommandSpec("stop", <<>>, <<>>, FALSE, "_handle_stop", TRUE,
                    <<Get(rl, "admin", DefaultAdminLevel)>>)
        count == CommandSpec("count", <<>>, <<>>, FALSE, "_handle_count", TRUE, NullLevel)
    IN  register_spec(register_spec(register_spec(register_spec(p, whoami), perm), stop), count)

\* The echo command with a text argument that takes one token only
EchoSpec_single_token ==
    CommandSpec("echo", <<CommandArgument("text", "str", TRUE, FALSE)>>, <<>>, FALSE,
                "_handle_echo", TRUE, NullLevel)

EchoSpec ==
    CommandSpec("echo", <<CommandArgument("text", "str", TRUE, TRUE)>>, <<>>, FALSE,
                "_handle_echo", TRUE, NullLevel)

\* The parser of a started bot: BaseBot.__init__, EchoBot.__init__, then
\* post_init (_load_identity and _register_commands)
BotParser ==
    LET p0 == CommandParser(<<"!">>, TRUE, <<>>, TRUE)
        p1 == register_spec(p0, EchoSpec)
        p2 == add_identity_aliases(p1, "Bot", "bot@z", <<>>)
    IN  register_commands(p2, DefaultRoleLevels)

----------------------------------------------------------------------------
(* bot_sdk/bot.py: the event pipeline BaseBot.on_event, cut at its awaits *)

\* The texts of the replies, without their leading emoji
DeniedReply == "Permission denied."
CannotStopReply == "Permission denied: you cannot stop this bot."
StoppingReply == "Stopping the bot..."

Terminal == {"finished", "raised", "cancelled"}

\* A task created by _handle_event for one event. level is the local "level"
\* of a _compute_user_level call in progress, user_level is on_event's local
\* once a check has assigned it (<<>> before), min is _handle_stop's stop_min.
NewUnit(sender, content) ==
    [sender |-> sender, content |-> content, pc |-> "new", cancel |-> FALSE,
     cleaned |-> FALSE, level |-> 0, user_level |-> <<>>, min |-> 0,
     replies |-> <<>>, handler |-> "none", after |-> "return"]

\* BaseBot.send_reply called: the unit is suspended in client.send_message
send_reply(u, content, after) ==
    [u EXCEPT !.replies = Append(@, content), !.pc = "sending", !.after = after]

\* The shared mutable configuration a step reads and writes
Ctx == [rl |-> role_levels, owner |-> owner_user_id, acl |-> acl_stop]

Out(u, c) == [unit |-> u, rl |-> c.rl, owner |-> c.owner, acl |-> c.acl]

\* The early lookup that reads specs by the first token and leaves
\* alias_index out
precheck_spec_no_alias(p, content) ==
    LET raw_text == strip(content)
        stripped == IF raw_text # <<>> THEN strip_prefix_or_mention(p, raw_text)
                    ELSE [is_none |-> TRUE, text |-> <<>>]
        tokens == IF ~stripped.is_none /\ stripped.text # <<>> THEN split(stripped.text)
                  ELSE <<>>
    IN  IF tokens = <<>> THEN <<>>
        ELSE IF Lower(tokens[1]) \in DOMAIN p.specs
             THEN <<p.specs[Lower(tokens[1])]>>
             ELSE <<>>

\* The name-only lookup of on_event's early check: <<spec>> or <<>>
precheck_spec(p, content) ==
    LET raw_text == strip(content)
        stripped == IF raw_text # <<>> THEN strip_prefix_or_mention(p, raw_text)
                    ELSE [is_none |-> TRUE, text |-> <<>>]
        tokens == IF ~stripped.is_none /\ stripped.text # <<>> THEN split(stripped.text)
                  ELSE <<>>
    IN  IF tokens = <<>> THEN <<>>
        ELSE IF resolve_name(p, tokens[1]) \in DOMAIN p.specs
             THEN <<p.specs[resolve_name(p, tokens[1])]>>
             ELSE <<>>

\* The events the transport delivers to the runner: a message of the bot
\* itself, a plain message and a command whose handler replies
Events ==
    { [sender |-> BotUserId, content |-> <<"hello">>],
      [sender |-> 2, content |-> <<"hello">>],
      [sender |-> 2, content |-> <<"!", "echo", " ", "hello", " ", "world">>] }

\* The events for the authorization checks: the restricted commands, well
\* formed and malformed, and the commands that change what a check reads
AuthSenders == {2, 3}

AuthContents ==
    { <<"!", "stop">>,
      <<"!", "stop", " ", "now">>,
      <<"!", "perm">>,
      <<"!", "perm", " ", "roles_set", " ", "admin", " ", "0">>,
      <<"!", "perm", " ", "allow_stop", " ", "3">>,
      <<"!", "whoami">> }

AuthEvents == [sender : AuthSenders, content : AuthContents]

\* The events for the failures of a unit: a restricted command with its
\* argument missing (denied to user 3, a parse failure for the bot owner), a
\* command whose handler awaits and may raise, and a plain message; an opener
\* with nothing after it (the prefix, a mention), an unregistered name, the
\* echo command and help; each also as a message of the bot itself
DispatchSenders == {BotUserId, 2, 3}

DispatchContents ==
    { <<"!", "perm">>,
      <<"!", "count">>,
      <<"hello">>,
      <<"!">>,
      <<"@Bot", ":", " ">>,
      <<"!", "unknown">>,
      <<"!", "echo", " ", "hello", " ", "world">>,
      <<"!", "help">> }

DispatchEvents == [sender : DispatchSenders, content : DispatchContents]

\* The built-in stop command sent by the bot owner (user 2) and by user 3
StopEvents == [sender : AuthSenders, content : {<<"!", "stop">>}]

\* Every text a message of the model carries
Contents == {e.content : e \in Events} \cup AuthContents \cup DispatchContents

\* BaseBot.parse_command on each of the texts, with the registry as it is
\* after startup (nothing registers a command later)
parse_command == [content \in Contents |-> parse_message(BotParser, content)]

\* The early lookup of on_event on each of the texts
name_spec == [content \in Contents |-> precheck_spec(BotParser, content)]

\* The comparison with its operands exchanged
below_min_exchanged(user_level, min_level) == min_level[1] < user_level

\* user_level < spec.min_level
below_min(user_level, min_level) == user_level < min_level[1]

\* _handle_perm roles_set: self.settings.role_levels[role] = level
roles_set(rl, role, level) == Put(rl, role, level)

\* _handle_perm set_owner: self.settings.owner_user_id = new_owner
set_owner(owner, new_owner) == new_owner

\* "not arg" for an optional str argument
Absent(v) == v = NoneVal

\* BaseBot._handle_perm up to its first await
handle_perm(u, inv, c) ==
    LET action == Lower(inv.args["action"].s)
        arg1 == inv.args["arg1"]
        arg2 == inv.args["arg2"]
    IN  CASE action = "set_owner" ->
               IF Absent(arg1) THEN Out(send_reply(u, "Usage: !perm set_owner <user_id>", "return"), c)
               ELSE IF ~IsIntTok(arg1.s) THEN Out(send_reply(u, "Invalid user_id", "return"), c)
               ELSE Out(send_reply(u, "Bot owner set", "return"),
                        [c EXCEPT !.owner = set_owner(@, IntOf(arg1.s))])
          [] action = "roles_show" ->
               Out(send_reply(u, "Current role levels", "return"), c)
          [] action = "roles_set" ->
               IF Absent(arg1) \/ Absent(arg2)
               THEN Out(send_reply(u, "Usage: !perm roles_set <role> <level>", "return"), c)
               ELSE IF ~IsIntTok(arg2.s) THEN Out(send_reply(u, "Invalid level", "return"), c)
               ELSE Out(send_reply(u, "Role level set", "return"),
                        [c EXCEPT !.rl = roles_set(@, arg1.s, IntOf(arg2.s))])
          [] action \in {"allow_stop", "deny_stop"} ->
               IF Absent(arg1)
               THEN Out(send_reply(u, "Usage: !perm " \o action \o " <user_id>", "return"), c)
               ELSE IF ~IsIntTok(arg1.s) THEN Out(send_reply(u, "Invalid user_id", "return"), c)
               ELSE Out([u EXCEPT !.pc = "perm_get"], c)
          [] OTHER -> Out(send_reply(u, "Unknown action", "return"), c)

\* The labels generate_help appends to a command's name, one per declared
\* argument, each after a space
RECURSIVE HelpParts(_)
HelpParts(args) ==
    IF args = <<>> THEN ""
    ELSE LET arg == Head(args)
             label == IF arg.multiple THEN arg.name \o "..." ELSE arg.name
         IN  " " \o (IF ~arg.required THEN "[" \o label \o "]" ELSE "<" \o label \o ">")
                 \o HelpParts(Tail(args))

\* The lines of generate_help for the specs called names, in the order of
\* registration; the description a line ends with is left out
RECURSIVE HelpLines(_, _)
HelpLines(p, names) ==
    IF names = <<>> THEN <<>>
    ELSE LET spec == p.specs[Head(names)] IN
         IF ~spec.show_in_help THEN HelpLines(p, Tail(names))
         ELSE <<(IF p.prefixes # <<>> THEN p.prefixes[1] ELSE "") \o spec.name
                    \o HelpParts(spec.args)>>
              \o HelpLines(p, Tail(names))

\* "\n".join(lines)
RECURSIVE JoinLines(_)
JoinLines(lines) ==
    IF Len(lines) = 1 THEN Head(lines)
    ELSE Head(lines) \o "\n" \o JoinLines(Tail(lines))

\* CommandParser.generate_help
generate_help(p) ==
    LET lines == HelpLines(p, p.names) IN
    IF lines # <<>> THEN JoinLines(lines) ELSE "No commands registered."

RECURSIVE Join(_)
Join(tokens) ==
    IF tokens = <<>> THEN ""
    ELSE IF Len(tokens) = 1 THEN Head(tokens).s
    ELSE Head(tokens).s \o " " \o Join(Tail(tokens))

\* CommandParser.dispatch and the handler it calls, up to the handler's first
\* await
dispatch(u, inv, c) ==
    LET h == inv.spec.handler
        v == [u EXCEPT !.handler = h]
    IN  CASE h = NoHandler ->
               Out(send_reply(u, "Command error: No handler registered", "return"), c)
          [] h = "_handle_help" -> Out(send_reply(v, generate_help(BotParser), "return"), c)
          [] h = "_handle_echo" -> Out(send_reply(v, Join(inv.args["text"].l), "return"), c)
          [] h = "_handle_whoami" ->
               Out([v EXCEPT !.pc = "whoami_level",
                             !.level = level_local(c.rl, c.owner, u.sender)], c)
          [] h = "_handle_perm" -> handle_perm(v, inv, c)
          [] h = "_handle_stop" ->
               Out([v EXCEPT !.pc = "stop_level",
                             !.min = Get(c.rl, "admin", DefaultAdminLevel),
                             !.level = level_local(c.rl, c.owner, u.sender)], c)
          [] OTHER -> Out([v EXCEPT !.pc = "custom"], c)

\* on_event without its handler for CommandError: a text that does not parse
\* goes to on_message like a text that is no command
after_precheck_error_is_message(u, c, on_message_raises) ==
    LET parsed(inv) ==
            CASE inv.kind \in {"error", "none"} ->
                   IF on_message_raises
                   THEN Out([u EXCEPT !.handler = "on_message", !.pc = "raised"], c)
                   ELSE Out(send_reply([u EXCEPT !.handler = "on_message"], "Echo", "return"), c)
              [] OTHER ->
                   IF inv.spec.min_level # NullLevel
                   THEN Out([u EXCEPT !.pc = "post_level",
                                      !.level = level_local(c.rl, c.owner, u.sender)], c)
                   ELSE dispatch(u, inv, c)
    IN  parsed(parse_command[u.content])

\* on_event from parse_command on; on_message_raises is the outcome of the
\* subclass's on_message
after_precheck(u, c, on_message_raises) ==
    LET parsed(inv) ==
            CASE inv.kind = "error" ->
                   Out(send_reply(u, "Command error: " \o inv.msg, "return"), c)
              [] inv.kind = "none" ->
                   IF on_message_raises
                   THEN Out([u EXCEPT !.handler = "on_message", !.pc = "raised"], c)
                   ELSE Out(send_reply([u EXCEPT !.handler = "on_message"], "Echo", "return"), c)
              [] OTHER ->
                   IF inv.spec.min_level # NullLevel
                   THEN Out([u EXCEPT !.pc = "post_level",
                                      !.level = level_local(c.rl, c.owner, u.sender)], c)
                   ELSE dispatch(u, inv, c)
    IN  parsed(parse_command[u.content])

\* on_event without the test of lines 469-471 on the sender
on_event_no_self_filter(u, c, on_message_raises) ==
    LET spec == name_spec[u.content] IN
    IF spec # <<>> /\ spec[1].min_level # NullLevel
    THEN Out([u EXCEPT !.pc = "pre_level",
                       !.level = level_local(c.rl, c.owner, u.sender)], c)
    ELSE after_precheck(u, c, on_message_raises)

\* on_event with the early check of lines 472-502 left out before parsing: a
\* message that does not parse is answered before any level is computed
on_event_parse_first(u, c, on_message_raises) ==
    IF u.sender = BotUserId THEN Out([u EXCEPT !.pc = "finished"], c)
    ELSE IF parse_command[u.content].kind = "error"
    THEN after_precheck(u, c, on_message_raises)
    ELSE LET spec == name_spec[u.content] IN
         IF spec # <<>> /\ spec[1].min_level # NullLevel
         THEN Out([u EXCEPT !.pc = "pre_level",
                            !.level = level_local(c.rl, c.owner, u.sender)], c)
         ELSE after_precheck(u, c, on_message_raises)

\* on_event from its first line to its first await
on_event(u, c, on_message_raises) ==
    IF u.sender = BotUserId THEN Out([u EXCEPT !.pc = "finished"], c)
    ELSE LET spec == name_spec[u.content] IN
         IF spec # <<>> /\ spec[1].min_level # NullLevel
         THEN Out([u EXCEPT !.pc = "pre_level",
                            !.level = level_local(c.rl, c.owner, u.sender)], c)
         ELSE after_precheck(u, c, on_message_raises)

\* The early check that compares with the role levels as they are now
pre_level_done_current_levels(u, c, is_owner, is_admin, on_message_raises) ==
    LET r == compute_user_level_resume(u.level, c.rl, TRUE, is_owner, is_admin)
        user_level == IF r.raised THEN 0 ELSE r.level
        min_level == IF name_spec[u.content][1].name = "stop"
                     THEN <<Get(c.rl, "admin", DefaultAdminLevel)>>
                     ELSE <<Get(c.rl, "bot_owner", DefaultBotOwnerLevel)>>
    IN  IF below_min(user_level, min_level)
        THEN Out(send_reply([u EXCEPT !.user_level = <<user_level>>], DeniedReply, "return"), c)
        ELSE after_precheck([u EXCEPT !.user_level = <<user_level>>], c, on_message_raises)

\* The early check resumed with the remote answers
pre_level_done(u, c, is_owner, is_admin, on_message_raises) ==
    LET r == compute_user_level_resume(u.level, c.rl, TRUE, is_owner, is_admin)
        user_level == IF r.raised THEN 0 ELSE r.level
    IN  IF below_min(user_level, name_spec[u.content][1].min_level)
        THEN Out(send_reply([u EXCEPT !.user_level = <<user_level>>], DeniedReply, "return"), c)
        ELSE after_precheck([u EXCEPT !.user_level = <<user_level>>], c, on_message_raises)

\* The check bound to the invocation that computes the level and dispatches
\* without comparing it
post_level_done_no_compare(u, c, is_owner, is_admin) ==
    LET inv == parse_command[u.content]
        r == compute_user_level_resume(u.level, c.rl, TRUE, is_owner, is_admin)
    IN  dispatch([u EXCEPT !.user_level = <<r.level>>], inv, c)

\* The check bound to the invocation resumed with the remote answers
post_level_done(u, c, is_owner, is_admin) ==
    LET r == compute_user_level_resume(u.level, c.rl, TRUE, is_owner, is_admin)
        user_level == r.level
        checked(inv) ==
            IF r.raised
            THEN Out(send_reply(u, "Command error: level", "return"), c)
            ELSE IF below_min(user_level, inv.spec.min_level)
            THEN Out(send_reply([u EXCEPT !.user_level = <<user_level>>], DeniedReply, "return"), c)
            ELSE dispatch([u EXCEPT !.user_level = <<user_level>>], inv, c)
    IN  checked(parse_command[u.content])

\* _handle_whoami resumed with the remote answers
whoami_done(u, c, is_owner, is_admin) ==
    Out(send_reply([u EXCEPT !.level = level_remote(u.level, c.rl, TRUE, is_owner, is_admin)],
                   "User info", "return"), c)

\* _handle_stop resumed from _compute_user_level; it then reads the allow-list
stop_level_done(u, c, is_owner, is_admin) ==
    LET r == compute_user_level_resume(u.level, c.rl, TRUE, is_owner, is_admin)
    IN  Out([u EXCEPT !.level = IF r.raised THEN 0 ELSE r.level, !.pc = "stop_acl"], c)

\* _handle_stop resumed from storage.get("acl.stop")
stop_acl_done(u, c) ==
    LET acl_allowed == u.sender \in c.acl IN
    IF u.level < u.min /\ ~acl_allowed
    THEN Out(send_reply(u, CannotStopReply, "return"), c)
    ELSE Out(send_reply(u, StoppingReply, "stop"), c)

\* _handle_perm allow_stop / deny_stop resumed from storage.get("acl.stop")
perm_get_done(u, c) ==
    LET resumed(inv) ==
            LET uid == IntOf(inv.args["arg1"].s) IN
            IF Lower(inv.args["action"].s) = "allow_stop"
            THEN IF uid \notin c.acl
                 THEN Out([u EXCEPT !.pc = "perm_put"], [c EXCEPT !.acl = @ \cup {uid}])
                 ELSE Out(send_reply(u, "User allowed to stop bot", "return"), c)
            ELSE Out([u EXCEPT !.pc = "perm_put"], [c EXCEPT !.acl = @ \ {uid}])
    IN  resumed(parse_command[u.content])

\* _handle_perm allow_stop / deny_stop resumed from storage.put
perm_put_done(u, c) ==
    IF Lower(parse_command[u.content].args["action"].s) = "allow_stop"
    THEN Out(send_reply(u, "User allowed to stop bot", "return"), c)
    ELSE Out(send_reply(u, "User denied to stop bot", "return"), c)

\* A subclass's handler resumed from its await: it replies, or it raises and
\* on_event's except clause replies
custom_done(u, c, raises) ==
    IF raises THEN Out(send_reply(u, "Command error: handler", "return"), c)
    ELSE Out(send_reply(u, "Count", "return"), c)

\* send_reply returned. After the stop notice _handle_stop finds no runner
\* attached (nothing calls set_runner) and only logs a warning.
send_done(u, c) == Out([u EXCEPT !.pc = "finished"], c)

----------------------------------------------------------------------------
(* asyncio.Semaphore as BotRunner uses it *)

\* locked() without its test of the value
locked_waiters_only(us, v, w) ==
    \E k \in 1..Len(w) : ~(us[w[k]].pc = "waiting" /\ us[w[k]].cancel)

\* Semaphore.locked(): no free slot, or a waiter whose future is not cancelled
locked(us, v, w) ==
    v = 0 \/ \E k \in 1..Len(w) : ~(us[w[k]].pc = "waiting" /\ us[w[k]].cancel)

\* The last waiter whose future is not done, or 0
RECURSIVE LastWaiting(_, _)
LastWaiting(us, w) ==
    IF w = <<>> THEN 0
    ELSE LET r == LastWaiting(us, Tail(w)) IN
         IF r # 0 THEN r
         ELSE IF us[Head(w)].pc = "waiting" /\ ~us[Head(w)].cancel THEN Head(w)
         ELSE 0

\* The first waiter, whether its future was cancelled or not, or 0
RECURSIVE FirstWaiting_also_cancelled(_, _)
FirstWaiting_also_cancelled(us, w) ==
    IF w = <<>> THEN 0
    ELSE IF us[Head(w)].pc = "waiting" THEN Head(w)
    ELSE FirstWaiting_also_cancelled(us, Tail(w))

\* The first waiter whose future is not done, or 0
RECURSIVE FirstWaiting(_, _)
FirstWaiting(us, w) ==
    IF w = <<>> THEN 0
    ELSE IF us[Head(w)].pc = "waiting" /\ ~us[Head(w)].cancel THEN Head(w)
    ELSE FirstWaiting(us, Tail(w))

\* _wake_up_next that wakes the waiter and leaves the value as it is
wake_up_next_keeps_value(st) ==
    LET j == FirstWaiting(st.u, st.w) IN
    IF j = 0 THEN st
    ELSE [st EXCEPT !.u[j].pc = "granted"]

\* Semaphore._wake_up_next: the slot passes to the first waiter
wake_up_next(st) ==
    LET j == FirstWaiting(st.u, st.w) IN
    IF j = 0 THEN st
    ELSE [st EXCEPT !.u[j].pc = "granted", !.v = @ - 1]

\* "while self._value > 0: if not self._wake_up_next(): break"
RECURSIVE wake_while(_)
wake_while(st) ==
    IF st.v > 0 /\ FirstWaiting(st.u, st.w) # 0 THEN wake_while(wake_up_next(st)) ELSE st

\* release() that adds the slot and wakes nobody
release_no_wake(st) == [st EXCEPT !.v = @ + 1]

\* Semaphore.release
release(st) == wake_up_next([st EXCEPT !.v = @ + 1])

RECURSIVE Remove(_, _)
Remove(w, i) ==
    IF w = <<>> THEN <<>>
    ELSE IF Head(w) = i THEN Tail(w)
    ELSE <<Head(w)>> \o Remove(Tail(w), i)

St == [u |-> units, v |-> sem_value, w |-> waiters]

Commit(st) == units' = st.u /\ sem_value' = st.v /\ waiters' = st.w

\* _run in which an exception leaving on_event also cancels the other tasks
Apply_raise_cancels_others(i, out, st) ==
    /\ role_levels' = out.rl
    /\ owner_user_id' = out.owner
    /\ acl_stop' = out.acl
    /\ LET st1 == [st EXCEPT !.u[i] = out.unit]
           st2 == IF out.unit.pc = "raised"
                  THEN [st1 EXCEPT !.u = [j \in DOMAIN @ |->
                                            IF j # i /\ @[j].pc \notin Terminal
                                            THEN [@[j] EXCEPT !.cancel = TRUE] ELSE @[j]]]
                  ELSE st1
       IN  Commit(IF out.unit.pc \in Terminal THEN release(st2) ELSE st2)

\* Unit i, holding a slot, has run to its next await or to the end of
\* "async with self._semaphore", which releases the slot
Apply(i, out, st) ==
    /\ role_levels' = out.rl
    /\ owner_user_id' = out.owner
    /\ acl_stop' = out.acl
    /\ LET st1 == [st EXCEPT !.u[i] = out.unit]
       IN  Commit(IF out.unit.pc \in Terminal THEN release(st1) ELSE st1)

----------------------------------------------------------------------------
(* bot_sdk/runner.py *)

Answers == {"yes", "no", "raise"}

Suspended == {"pre_level", "post_level", "whoami_level", "stop_level", "stop_acl",
              "perm_get", "perm_put", "custom", "sending"}

\* _handle_event that awaits the unit's slot itself before it returns
Arrive_awaits_slot(event, limit) ==
    /\ intake = "running"
    /\ Len(units) < limit
    /\ sem_value > 0
    /\ units' = Append(units, NewUnit(event.sender, event.content))
    /\ tasks' = tasks \cup {Len(units) + 1}
    /\ UNCHANGED <<role_levels, owner_user_id, acl_stop, sem_value, waiters,
                   max_concurrency, stop_pc, gathered, intake, lv_in, lv_out,
                   startup, parser, p_call,
                   group, db>>

\* _handle_event: create the task, register it, add the done callback
Arrive(event, limit) ==
    /\ intake = "running"
    /\ Len(units) < limit
    /\ units' = Append(units, NewUnit(event.sender, event.content))
    /\ tasks' = tasks \cup {Len(units) + 1}
    /\ UNCHANGED <<role_levels, owner_user_id, acl_stop, sem_value, waiters,
                   max_concurrency, stop_pc, gathered, intake, lv_in, lv_out,
                   startup, parser, p_call,
                   group, db>>

\* First step of _run: "async with self._semaphore", then on_event to its
\* first await. The event loop runs the first steps of the tasks in the order
\* create_task scheduled them.
Start(i, on_message_raises) ==
    /\ units[i].pc = "new"
    /\ ~units[i].cancel
    /\ \A j \in 1..(i - 1) : units[j].pc # "new"
    /\ IF locked(units, sem_value, waiters)
       THEN /\ units' = [units EXCEPT ![i].pc = "waiting"]
            /\ waiters' = Append(waiters, i)
            /\ UNCHANGED <<role_levels, owner_user_id, acl_stop, sem_value,
                   group, db>>
       ELSE Apply(i, on_event(units[i], Ctx, on_message_raises),
                  [St EXCEPT !.v = @ - 1])
    /\ UNCHANGED <<tasks, max_concurrency, stop_pc, gathered, intake, lv_in, lv_out,
                   startup, parser, p_call,
                   group, db>>

\* A woken waiter resumes in Semaphore.acquire and enters on_event
Resume(i, on_message_raises) ==
    /\ units[i].pc = "granted"
    /\ ~units[i].cancel
    /\ Apply(i, on_event(units[i], Ctx, on_message_raises),
             wake_while([St EXCEPT !.w = Remove(@, i)]))
    /\ UNCHANGED <<tasks, max_concurrency, stop_pc, gathered, intake, lv_in, lv_out,
                   startup, parser, p_call,
                   group, db>>

\* The unit resumes from the remote role queries of a permission check
LevelDone(i, is_owner, is_admin, on_message_raises) ==
    /\ units[i].pc \in {"pre_level", "post_level", "whoami_level", "stop_level"}
    /\ ~units[i].cancel
    /\ Apply(i,
             CASE units[i].pc = "pre_level" ->
                    pre_level_done(units[i], Ctx, is_owner, is_admin, on_message_raises)
               [] units[i].pc = "post_level" ->
                    post_level_done(units[i], Ctx, is_owner, is_admin)
               [] units[i].pc = "whoami_level" -> whoami_done(units[i], Ctx, is_owner, is_admin)
               [] OTHER -> stop_level_done(units[i], Ctx, is_owner, is_admin),
             St)
    /\ UNCHANGED <<tasks, max_concurrency, stop_pc, gathered, intake, lv_in, lv_out,
                   startup, parser, p_call,
                   group, db>>

\* The unit resumes from a storage call of a built-in handler
StorageDone(i) ==
    /\ units[i].pc \in {"stop_acl", "perm_get", "perm_put"}
    /\ ~units[i].cancel
    /\ Apply(i,
             CASE units[i].pc = "stop_acl" -> stop_acl_done(units[i], Ctx)
               [] units[i].pc = "perm_get" -> perm_get_done(units[i], Ctx)
               [] OTHER -> perm_put_done(units[i], Ctx),
             St)
    /\ UNCHANGED <<tasks, max_concurrency, stop_pc, gathered, intake, lv_in, lv_out,
                   startup, parser, p_call,
                   group, db>>

\* A subclass's handler resumes from its await
CustomDone(i, raises) ==
    /\ units[i].pc = "custom"
    /\ ~units[i].cancel
    /\ Apply(i, custom_done(units[i], Ctx, raises), St)
    /\ UNCHANGED <<tasks, max_concurrency, stop_pc, gathered, intake, lv_in, lv_out,
                   startup, parser, p_call,
                   group, db>>

\* client.send_message returns and on_event runs to its end
SendDone(i) ==
    /\ units[i].pc = "sending"
    /\ ~units[i].cancel
    /\ Apply(i, send_done(units[i], Ctx), St)
    /\ UNCHANGED <<tasks, max_concurrency, stop_pc, gathered, intake, lv_in, lv_out,
                   startup, parser, p_call,
                   group, db>>

\* A cancellation that lets a unit whose handler has begun run to its end
cancelled_after_handler(st, i) ==
    LET st1 == [st EXCEPT !.u[i].pc = IF st.u[i].handler # "none" THEN "finished"
                                      ELSE "cancelled"] IN
    CASE st.u[i].pc = "new" -> st1
      [] st.u[i].pc = "waiting" -> wake_while([st1 EXCEPT !.w = Remove(@, i)])
      [] st.u[i].pc = "granted" -> wake_while([st1 EXCEPT !.w = Remove(@, i), !.v = @ + 1])
      [] OTHER -> release(st1)

\* A cancellation inside on_event that leaves "async with" without releasing
\* the slot
cancelled_keeps_slot(st, i) ==
    LET st1 == [st EXCEPT !.u[i].pc = "cancelled"] IN
    CASE st.u[i].pc = "new" -> st1
      [] st.u[i].pc = "waiting" -> wake_while([st1 EXCEPT !.w = Remove(@, i)])
      [] st.u[i].pc = "granted" -> wake_while([st1 EXCEPT !.w = Remove(@, i), !.v = @ + 1])
      [] OTHER -> st1

\* The task's next step after task.cancel(): CancelledError is thrown at the
\* await the unit is suspended in (or before its first line)
cancelled(st, i) ==
    LET st1 == [st EXCEPT !.u[i].pc = "cancelled"] IN
    CASE st.u[i].pc = "new" -> st1
      [] st.u[i].pc = "waiting" -> wake_while([st1 EXCEPT !.w = Remove(@, i)])
      [] st.u[i].pc = "granted" -> wake_while([st1 EXCEPT !.w = Remove(@, i), !.v = @ + 1])
      [] OTHER -> release(st1)

Cancelled(i) ==
    /\ units[i].pc \notin Terminal
    /\ units[i].cancel
    /\ Commit(cancelled(St, i))
    /\ UNCHANGED <<role_levels, owner_user_id, acl_stop, tasks, max_concurrency,
                   stop_pc, gathered, intake, lv_in, lv_out,
                   startup, parser, p_call,
                   group, db>>

\* The done callback _cleanup
Cleanup(i) ==
    /\ units[i].pc \in Terminal
    /\ ~units[i].cleaned
    /\ units' = [units EXCEPT ![i].cleaned = TRUE]
    /\ tasks' = tasks \ {i}
    /\ UNCHANGED <<role_levels, owner_user_id, acl_stop, sem_value, waiters,
                   max_concurrency, stop_pc, gathered, intake, lv_in, lv_out,
                   startup, parser, p_call,
                   group, db>>

\* task.cancel() for every task of the set: no effect on a task that is done
cancel_all(us, ts) ==
    [k \in 1..Len(us) |->
        IF k \in ts /\ us[k].pc \notin Terminal THEN [us[k] EXCEPT !.cancel = TRUE] ELSE us[k]]

\* BotRunner.stop up to its first await: cancel every registered task, then
\* gather them (or go on at once when the set is empty)
StopBegin ==
    /\ stop_pc = "idle"
    /\ units' = cancel_all(units, tasks)
    /\ gathered' = tasks
    /\ stop_pc' = IF tasks # {} THEN "gather" ELSE "on_stop"
    /\ UNCHANGED <<role_levels, owner_user_id, acl_stop, sem_value, waiters, tasks,
                   max_concurrency, intake, lv_in, lv_out,
                   startup, parser, p_call,
                   group, db>>

\* stop() that does not await the gathered tasks
gather_not_awaited(us, g) == TRUE

\* "await asyncio.gather(*self._tasks, return_exceptions=True)" can return:
\* every gathered task is done and its done callbacks have run
gather_done(us, g) == \A i \in g : us[i].pc \in Terminal /\ us[i].cleaned

\* gather returns; then self._tasks.clear() and bot.on_stop() is called
StopGathered ==
    /\ stop_pc = "gather"
    /\ gather_done(units, gathered)
    /\ tasks' = {}
    /\ stop_pc' = "on_stop"
    /\ UNCHANGED <<role_levels, owner_user_id, acl_stop, sem_value, waiters, units,
                   max_concurrency, gathered, intake, lv_in, lv_out,
                   startup, parser, p_call,
                   group, db>>

\* bot.on_stop() returns and client.aclose() is called
StopOnStop ==
    /\ stop_pc = "on_stop"
    /\ stop_pc' = "aclose"
    /\ UNCHANGED <<role_levels, owner_user_id, acl_stop, sem_value, waiters, tasks,
                   units, max_concurrency, gathered, intake, lv_in, lv_out,
                   startup, parser, p_call,
                   group, db>>

\* client.aclose() returns and stop() returns
StopClose ==
    /\ stop_pc = "aclose"
    /\ stop_pc' = "stopped"
    /\ UNCHANGED <<role_levels, owner_user_id, acl_stop, sem_value, waiters, tasks,
                   units, max_concurrency, gathered, intake, lv_in, lv_out,
                   startup, parser, p_call,
                   group, db>>

\* call_on_each_event ends (run_forever is cancelled or the transport fails)
IntakeEnd ==
    /\ intake = "running"
    /\ intake' = "ended"
    /\ UNCHANGED <<role_levels, owner_user_id, acl_stop, sem_value, waiters, tasks,
                   units, max_concurrency, stop_pc, gathered, lv_in, lv_out,
                   startup, parser, p_call,
                   group, db>>

NoLevelCall == [rl |-> DefaultRoleLevels, owner |-> 0, perms |-> FALSE, user_id |-> 0,
                is_owner |-> "no", is_admin |-> "no"]

NoLevelResult == [done |-> FALSE, raised |-> FALSE, level |-> 0]

\* start() has returned and run_forever is in call_on_each_event
Started == [pc |-> "loop", client |-> TRUE, bot |-> TRUE, started |-> TRUE]

\* run_all_bots has not been called
NoGroup == [pc |-> "none", k |-> 0, runners |-> <<>>, stack |-> <<>>, outcome |-> "none"]

NoParserCall == [op |-> "none", args |-> <<>>, result |-> <<>>]

\* A started runner: BotRunner.__init__ and start() done, run_forever in
\* call_on_each_event; the settings name user 2 as the bot owner
Init ==
    /\ role_levels = DefaultRoleLevels
    /\ owner_user_id = 2
    /\ acl_stop = {}
    /\ max_concurrency \in 1..MaxConc
    /\ sem_value = max_concurrency
    /\ waiters = <<>>
    /\ tasks = {}
    /\ units = <<>>
    /\ stop_pc = "idle"
    /\ gathered = {}
    /\ intake = "running"
    /\ lv_in = NoLevelCall
    /\ lv_out = NoLevelResult
    /\ startup = Started
    /\ parser = BotParser
    /\ p_call = NoParserCall
    /\ group = NoGroup
    /\ db = [pc |-> "none"]

\* The steps of a unit of work while the runner runs: it starts, passes the
\* gate, finishes a send, and its done callback runs
UnitSteps ==
    \/ \E i \in 1..Len(units), b \in BOOLEAN : Start(i, b)
    \/ \E i \in 1..Len(units), b \in BOOLEAN : Resume(i, b)
    \/ \E i \in 1..Len(units) : SendDone(i)
    \/ \E i \in 1..Len(units) : Cleanup(i)

\* The steps of a shutdown: stop() advances, a cancelled unit ends, the intake
\* loop ends
StopSteps ==
    \/ \E i \in 1..Len(units) : Cancelled(i)
    \/ StopBegin
    \/ StopGathered
    \/ StopOnStop
    \/ StopClose
    \/ IntakeEnd

\* The steps of the permission checks and of the handlers that await
HandlerSteps ==
    \/ \E i \in 1..Len(units), o \in Answers, a \in Answers, b \in BOOLEAN : LevelDone(i, o, a, b)
    \/ \E i \in 1..Len(units) : StorageDone(i)

Next ==
    \/ \E event \in Events : Arrive(event, MaxEvents)
    \/ UnitSteps
    \/ StopSteps

Spec == Init /\ [][Next]_vars

\* The dispatcher on commands, with no shutdown in progress
NextAuth ==
    \/ \E event \in AuthEvents : Arrive(event, MaxAuthEvents)
    \/ UnitSteps
    \/ HandlerSteps

\* A started runner whose storage holds the allow-list acl.stop of an earlier
\* run: empty, or naming user 3
InitAuth ==
    /\ role_levels = DefaultRoleLevels
    /\ owner_user_id = 2
    /\ acl_stop \in {{}, {3}}
    /\ max_concurrency \in 1..MaxConc
    /\ sem_value = max_concurrency
    /\ waiters = <<>>
    /\ tasks = {}
    /\ units = <<>>
    /\ stop_pc = "idle"
    /\ gathered = {}
    /\ intake = "running"
    /\ lv_in = NoLevelCall
    /\ lv_out = NoLevelResult
    /\ startup = Started
    /\ parser = BotParser
    /\ p_call = NoParserCall
    /\ group = NoGroup
    /\ db = [pc |-> "none"]

SpecAuth == InitAuth /\ [][NextAuth]_vars

\* The dispatcher on messages that fail: the permission check and the
\* subclass's handler resume, with no shutdown in progress
FailureSteps ==
    \/ \E i \in 1..Len(units), o \in Answers, a \in Answers, b \in BOOLEAN : LevelDone(i, o, a, b)
    \/ \E i \in 1..Len(units), raises \in BOOLEAN : CustomDone(i, raises)

NextDispatch ==
    \/ \E event \in DispatchEvents : Arrive(event, MaxDispatchEvents)
    \/ UnitSteps
    \/ FailureSteps

SpecDispatch == Init /\ [][NextDispatch]_vars

\* The built-in stop command under the runner: its handler runs while stop()
\* may be called from outside (run_bot's "async with runner", a signal)
NextStop ==
    \/ \E event \in StopEvents : Arrive(event, MaxStopEvents)
    \/ UnitSteps
    \/ HandlerSteps
    \/ StopSteps

SpecStop == Init /\ [][NextStop]_vars

\* run_forever is called on a runner no call is running on: start() when
\* client or bot is unset (the two are assigned before start's first await),
\* then call_on_each_event
RunForever ==
    /\ startup.pc = "idle"
    /\ intake # "running"
    /\ IF ~startup.client \/ ~startup.bot
       THEN /\ startup' = [startup EXCEPT !.client = TRUE, !.bot = TRUE, !.pc = "post_init"]
            /\ UNCHANGED intake
       ELSE /\ startup' = [startup EXCEPT !.pc = "loop"]
            /\ intake' = "running"
    /\ UNCHANGED <<role_levels, owner_user_id, acl_stop, sem_value, waiters, tasks,
                   units, max_concurrency, stop_pc, gathered, lv_in, lv_out,
                   parser, p_call,
                   group, db>>

\* "await self.bot.post_init()" returns, or raises out of start and run_forever
PostInitDone(ok) ==
    /\ startup.pc = "post_init"
    /\ startup' = [startup EXCEPT !.pc = IF ok THEN "ensure_session" ELSE "idle"]
    /\ UNCHANGED <<role_levels, owner_user_id, acl_stop, sem_value, waiters, tasks,
                   units, max_concurrency, stop_pc, gathered, intake, lv_in, lv_out,
                   parser, p_call,
                   group, db>>

\* "await self.client.ensure_session()" returns or raises
EnsureSessionDone(ok) ==
    /\ startup.pc = "ensure_session"
    /\ startup' = [startup EXCEPT !.pc = IF ok THEN "on_start" ELSE "idle"]
    /\ UNCHANGED <<role_levels, owner_user_id, acl_stop, sem_value, waiters, tasks,
                   units, max_concurrency, stop_pc, gathered, intake, lv_in, lv_out,
                   parser, p_call,
                   group, db>>

\* "await self.bot.on_start()" returns, start() with it and run_forever goes
\* on to call_on_each_event; or it raises
OnStartDone(ok) ==
    /\ startup.pc = "on_start"
    /\ IF ok
       THEN /\ startup' = [startup EXCEPT !.pc = "loop", !.started = TRUE]
            /\ intake' = "running"
       ELSE /\ startup' = [startup EXCEPT !.pc = "idle"]
            /\ UNCHANGED intake
    /\ UNCHANGED <<role_levels, owner_user_id, acl_stop, sem_value, waiters, tasks,
                   units, max_concurrency, stop_pc, gathered, lv_in, lv_out,
                   parser, p_call,
                   group, db>>

\* BotRunner.__init__ done: client and bot are None, nothing runs
InitStart ==
    /\ role_levels = DefaultRoleLevels
    /\ owner_user_id = 2
    /\ acl_stop = {}
    /\ max_concurrency \in 1..MaxConc
    /\ sem_value = max_concurrency
    /\ waiters = <<>>
    /\ tasks = {}
    /\ units = <<>>
    /\ stop_pc = "idle"
    /\ gathered = {}
    /\ intake = "idle"
    /\ lv_in = NoLevelCall
    /\ lv_out = NoLevelResult
    /\ startup = [pc |-> "idle", client |-> FALSE, bot |-> FALSE, started |-> FALSE]
    /\ parser = BotParser
    /\ p_call = NoParserCall
    /\ group = NoGroup
    /\ db = [pc |-> "none"]

\* run_forever called on a new runner, again after a failed start, and the
\* units of the events it then receives
NextStart ==
    \/ RunForever
    \/ \E ok \in BOOLEAN : PostInitDone(ok)
    \/ \E ok \in BOOLEAN : EnsureSessionDone(ok)
    \/ \E ok \in BOOLEAN : OnStartDone(ok)
    \/ \E event \in Events : Arrive(event, MaxEvents)
    \/ UnitSteps

SpecStart == InitStart /\ [][NextStart]_vars

\* A CommandParser used on its own: the alias lists it is constructed with and
\* given to set_mentions ("" is an empty alias), the identities and extra
\* aliases given to add_identity_aliases, and the texts it parses
AliasLists == {<<>>, <<"@Bot">>, <<"@ops", "">>}

FullNames == {"", "Bot"}

Emails == {"", "bot@z"}

ExtraAliases == {<<>>, <<"@ops">>}

ParserContents ==
    { <<"!", "help">>,
      <<"@bot", " ", "help">>,
      <<"@Bot", ",", "help">>,
      <<"@ops", ":", " ", "help">>,
      <<"hello">>,
      <<" ", "hello", " ", "!", "help">>,
      <<" ">> }

PSetMentions(aliases) ==
    /\ parser' = set_mentions(parser, aliases)
    /\ p_call' = [op |-> "set_mentions", args |-> aliases, result |-> <<>>]
    /\ UNCHANGED <<role_levels, owner_user_id, acl_stop, sem_value, waiters, tasks,
                   units, max_concurrency, stop_pc, gathered, intake, lv_in, lv_out,
                   startup,
                   group, db>>

PAddIdentityAliases(full_name, email, extra) ==
    /\ Len(add_identity_aliases(parser, full_name, email, extra).mention_aliases) <= MaxAliases
    /\ parser' = add_identity_aliases(parser, full_name, email, extra)
    /\ p_call' = [op |-> "add_identity_aliases", args |-> <<full_name, email>> \o extra,
                  result |-> <<>>]
    /\ UNCHANGED <<role_levels, owner_user_id, acl_stop, sem_value, waiters, tasks,
                   units, max_concurrency, stop_pc, gathered, intake, lv_in, lv_out,
                   startup,
                   group, db>>

PParseMessage(content) ==
    /\ p_call' = [op |-> "parse_message", args |-> content,
                  result |-> <<parse_message(parser, content)>>]
    /\ UNCHANGED <<role_levels, owner_user_id, acl_stop, sem_value, waiters, tasks,
                   units, max_concurrency, stop_pc, gathered, intake, lv_in, lv_out,
                   startup, parser,
                   group, db>>

\* CommandParser(prefixes="!", enable_mentions=..., mention_aliases=...) just
\* constructed
InitParser ==
    /\ role_levels = DefaultRoleLevels
    /\ owner_user_id = 0 - 1
    /\ acl_stop = {}
    /\ max_concurrency = 1
    /\ sem_value = 1
    /\ waiters = <<>>
    /\ tasks = {}
    /\ units = <<>>
    /\ stop_pc = "idle"
    /\ gathered = {}
    /\ intake = "ended"
    /\ lv_in = NoLevelCall
    /\ lv_out = NoLevelResult
    /\ startup = [pc |-> "idle", client |-> FALSE, bot |-> FALSE, started |-> FALSE]
    /\ parser \in {CommandParser(<<"!">>, enable_mentions, aliases, TRUE) :
                     enable_mentions \in BOOLEAN, aliases \in AliasLists}
    /\ p_call = [op |-> "init", args |-> <<>>, result |-> <<>>]
    /\ group = NoGroup
    /\ db = [pc |-> "none"]

NextParser ==
    \/ \E aliases \in AliasLists : PSetMentions(aliases)
    \/ \E full_name \in FullNames, email \in Emails, extra \in ExtraAliases :
          PAddIdentityAliases(full_name, email, extra)
    \/ \E content \in ParserContents : PParseMessage(content)

SpecParser == InitParser /\ [][NextParser]_vars

\* A registry built by register_spec calls and the texts parsed against it.
\* The specs: add [a:int required, b:str optional] with alias plus, without
\* and with allow_extra; say [text:str required, capture remaining]; tag
\* [n:int required, rest:str optional capture remaining, z:str optional];
\* note [text:str optional capture remaining, who:str required]; and sum,
\* with no arguments, whose alias is the name of add
RegSpecs ==
    {CommandSpec("add", <<CommandArgument("a", "int", TRUE, FALSE),
                          CommandArgument("b", "str", FALSE, FALSE)>>,
                 <<"plus">>, allow_extra, "_handle_add", TRUE, NullLevel) :
        allow_extra \in BOOLEAN}
    \cup
    {CommandSpec("say", <<CommandArgument("text", "str", TRUE, TRUE)>>,
                 <<>>, FALSE, "_handle_say", TRUE, NullLevel),
     CommandSpec("tag", <<CommandArgument("n", "int", TRUE, FALSE),
                          CommandArgument("rest", "str", FALSE, TRUE),
                          CommandArgument("z", "str", FALSE, FALSE)>>,
                 <<>>, FALSE, "_handle_tag", TRUE, NullLevel),
     CommandSpec("note", <<CommandArgument("text", "str", FALSE, TRUE),
                           CommandArgument("who", "str", TRUE, FALSE)>>,
                 <<>>, FALSE, "_handle_note", TRUE, NullLevel),
     CommandSpec("sum", <<>>, <<"add">>, FALSE, "_handle_sum", TRUE, NullLevel)}

\* The text "!<name> <token> <token> ..."
RECURSIVE Spaced(_)
Spaced(tokens) ==
    IF tokens = <<>> THEN <<>> ELSE <<" ", Head(tokens)>> \o Spaced(Tail(tokens))

RegistryContents ==
    {<<"!", name>> \o Spaced(tokens) :
        name \in {"add", "plus", "say", "tag", "note", "sum"},
        tokens \in {<<>>, <<"5">>, <<"x">>, <<"5", "x">>, <<"5", "x", "y">>,
                    <<"a", "b", "c">>}}

PRegisterSpec(spec) ==
    /\ parser' = register_spec(parser, spec)
    /\ p_call' = [op |-> "register_spec", args |-> <<spec.name>>, result |-> <<>>]
    /\ UNCHANGED <<role_levels, owner_user_id, acl_stop, sem_value, waiters, tasks,
                   units, max_concurrency, stop_pc, gathered, intake, lv_in, lv_out,
                   startup,
                   group, db>>

\* CommandParser(prefixes="!") just constructed, with or without auto_help
InitRegistry ==
    /\ role_levels = DefaultRoleLevels
    /\ owner_user_id = 0 - 1
    /\ acl_stop = {}
    /\ max_concurrency = 1
    /\ sem_value = 1
    /\ waiters = <<>>
    /\ tasks = {}
    /\ units = <<>>
    /\ stop_pc = "idle"
    /\ gathered = {}
    /\ intake = "ended"
    /\ lv_in = NoLevelCall
    /\ lv_out = NoLevelResult
    /\ startup = [pc |-> "idle", client |-> FALSE, bot |-> FALSE, started |-> FALSE]
    /\ parser \in {CommandParser(<<"!">>, TRUE, <<>>, auto_help) : auto_help \in BOOLEAN}
    /\ p_call = [op |-> "init", args |-> <<>>, result |-> <<>>]
    /\ group = NoGroup
    /\ db = [pc |-> "none"]

NextRegistry ==
    \/ \E spec \in RegSpecs : PRegisterSpec(spec)
    \/ \E content \in RegistryContents : PParseMessage(content)

SpecRegistry == InitRegistry /\ [][NextRegistry]_vars

\* The runner with no stop requested. The event loop runs every task that is
\* ready, and every send returns: each unit's own steps are weakly fair.
UnitStep(i) ==
    /\ i \in 1..Len(units)
    /\ \/ \E b \in BOOLEAN : Start(i, b)
       \/ \E b \in BOOLEAN : Resume(i, b)
       \/ SendDone(i)

NextLive ==
    \/ \E event \in Events : Arrive(event, MaxEvents)
    \/ UnitSteps

SpecLive == Init /\ [][NextLive]_vars /\ \A i \in 1..MaxEvents : WF_vars(UnitStep(i))

----------------------------------------------------------------------------
(* _compute_user_level as a function of the configuration and the remote     *)
(* answers: the configuration is changed by perm roles_set and perm          *)
(* set_owner, and the function is called for a user with given answers.      *)

RoleNames == {"user", "admin", "owner", "bot_owner"}

\* The levels perm roles_set is given, the user ids perm set_owner is given
\* and the users a level is computed for
LevelValues == {0 - 5, 60, 300}
OwnerIds == {0, 2}
LevelUsers == {2, 3}

LvRolesSet(role, level) ==
    /\ lv_in' = [lv_in EXCEPT !.rl = roles_set(@, role, level)]
    /\ lv_out' = NoLevelResult
    /\ UNCHANGED <<role_levels, owner_user_id, acl_stop, sem_value, waiters, tasks,
                   units, max_concurrency, stop_pc, gathered, intake,
                   startup, parser, p_call,
                   group, db>>

LvSetOwner(new_owner) ==
    /\ lv_in' = [lv_in EXCEPT !.owner = set_owner(@, new_owner)]
    /\ lv_out' = NoLevelResult
    /\ UNCHANGED <<role_levels, owner_user_id, acl_stop, sem_value, waiters, tasks,
                   units, max_concurrency, stop_pc, gathered, intake,
                   startup, parser, p_call,
                   group, db>>

\* One call of _compute_user_level(user_id) with the remote answers given
LvCall(user_id, is_owner, is_admin) ==
    /\ lv_in' = [lv_in EXCEPT !.user_id = user_id, !.is_owner = is_owner, !.is_admin = is_admin]
    /\ lv_out' = [done |-> TRUE,
                  raised |-> compute_user_level(lv_in.rl, lv_in.owner, lv_in.perms,
                                                user_id, is_owner, is_admin).raised,
                  level |-> compute_user_level(lv_in.rl, lv_in.owner, lv_in.perms,
                                               user_id, is_owner, is_admin).level]
    /\ UNCHANGED <<role_levels, owner_user_id, acl_stop, sem_value, waiters, tasks,
                   units, max_concurrency, stop_pc, gathered, intake,
                   startup, parser, p_call,
                   group, db>>

\* The settings as loaded (the default role levels, or a file that names
\* none), the default owner id, storage enabled or not
InitLevel ==
    /\ role_levels = DefaultRoleLevels
    /\ owner_user_id = 0 - 1
    /\ acl_stop = {}
    /\ max_concurrency = 1
    /\ sem_value = 1
    /\ waiters = <<>>
    /\ tasks = {}
    /\ units = <<>>
    /\ stop_pc = "idle"
    /\ gathered = {}
    /\ intake = "ended"
    /\ lv_in \in [rl : {DefaultRoleLevels, <<>>}, owner : {0 - 1}, perms : BOOLEAN,
                  user_id : {0}, is_owner : {"no"}, is_admin : {"no"}]
    /\ lv_out = NoLevelResult
    /\ startup = Started
    /\ parser = BotParser
    /\ p_call = NoParserCall
    /\ group = NoGroup
    /\ db = [pc |-> "none"]

NextLevel ==
    \/ \E role \in RoleNames, level \in LevelValues : LvRolesSet(role, level)
    \/ \E new_owner \in OwnerIds : LvSetOwner(new_owner)
    \/ \E user_id \in LevelUsers, o \in Answers, a \in Answers : LvCall(user_id, o, a)

SpecLevel == InitLevel /\ [][NextLevel]_vars

-----------------------------------------------------------------------------
(* Properties of the runner, under Spec                                      *)

\* The units past the gate: inside on_event, holding a slot
PastGate == {i \in 1..Len(units) : units[i].pc \in Suspended}

\* C1: at every moment the number of active units, those that have passed the
\* concurrency gate and are executing the bot's event handler, is at most
\* max_concurrency, whatever the arrivals, completions, handler errors and
\* cancellations.
C1_ActiveAtMostCeiling == Cardinality(PastGate) <= max_concurrency

\* The ceiling is reached while a unit waits at the gate and after a unit has
\* ended with an error
C1_Witness ==
    /\ Cardinality(PastGate) = max_concurrency
    /\ \E i \in 1..Len(units) : units[i].pc = "waiting"
    /\ \E i \in 1..Len(units) : units[i].pc = "raised"

\* C5: stop() first requests the cancellation of every unit in flight when it
\* begins, and it gets to bot.on_stop() and client.aclose(), and returns, only
\* when every one of those units has reached a terminal state.
C5_StopWaitsForUnits ==
    /\ [](stop_pc \in {"on_stop", "aclose", "stopped"}
            => \A i \in gathered : units[i].pc \in Terminal)
    /\ [][(stop_pc = "idle" /\ stop_pc' # "idle")
            => \A i \in 1..Len(units) :
                 units[i].pc \notin Terminal => (i \in gathered' /\ units'[i].cancel)]_vars

\* stop() has returned after it waited for a unit it cancelled and for a
\* unit that ended by itself meanwhile
C5_Witness ==
    /\ stop_pc = "stopped"
    /\ \E i \in gathered : units[i].pc = "cancelled"
    /\ \E i \in gathered : units[i].pc = "finished" /\ units[i].replies # <<>>

\* C6, as stated: on stop no unit is terminated in the middle of its handler;
\* a handler that has begun for an event is not interrupted by the stop
\* before it finishes.
C6_HandlerNeverInterrupted ==
    \A i \in 1..Len(units) : units[i].handler # "none" => units[i].pc # "cancelled"

\* C6, amended: stop() cancels cooperatively. A unit whose cancellation was
\* requested takes no further step of its own: wherever it is suspended, also
\* inside its handler, its next step ends it as cancelled; and a unit that
\* has reached a terminal state keeps that state.
C6_CancelledAtItsAwait ==
    [][\A i \in 1..Len(units) :
          /\ (units[i].cancel /\ units[i].pc \notin Terminal /\ units'[i].pc # units[i].pc)
                => units'[i].pc = "cancelled"
          /\ units[i].pc \in Terminal => units'[i].pc = units[i].pc]_vars

\* A unit whose handler had begun was cancelled in its send, and stop()
\* returned
C6_Witness ==
    /\ stop_pc = "stopped"
    /\ \E i \in 1..Len(units) :
          units[i].handler # "none" /\ units[i].pc = "cancelled" /\ units[i].replies # <<>>

\* C8: the intake is never blocked by the gate: while max_concurrency units
\* are active, and without any of them taking a step, the next event is
\* accepted and its unit is spawned.
C8_IntakeNotBlocked ==
    (intake = "running" /\ Len(units) < MaxEvents
        /\ Cardinality(PastGate) = max_concurrency)
    => ENABLED (\E event \in Events : Arrive(event, MaxEvents))

\* More units have been spawned than the ceiling admits: the ceiling is
\* reached, one unit waits at the gate and one has not yet run
C8_Witness ==
    /\ Cardinality(PastGate) = max_concurrency
    /\ Len(units) > max_concurrency + 1
    /\ \E i \in 1..Len(units) : units[i].pc = "waiting"
    /\ \E i \in 1..Len(units) : units[i].pc = "new"

-----------------------------------------------------------------------------
(* Progress of the units, under SpecLive                                     *)

\* C7: when more events arrive than max_concurrency admits, every handler
\* finishes and no stop is requested, every unit that was spawned eventually
\* gets a slot and runs to its end, for every ceiling.
C7_EveryUnitCompletes ==
    \A i \in 1..MaxEvents :
        (Len(units) >= i) ~> (Len(units) >= i /\ units[i].pc \in {"finished", "raised"})

\* More units than the ceiling were spawned, all have ended and every slot
\* is free again
C7_Witness ==
    /\ Len(units) = MaxEvents
    /\ Len(units) > max_concurrency
    /\ \A i \in 1..Len(units) : units[i].pc \in {"finished", "raised"}
    /\ sem_value = max_concurrency

-----------------------------------------------------------------------------
(* Properties of the authorization checks, under SpecAuth                    *)

\* The restricted command a message names: <<spec>>, or <<>>
Restricted(u) ==
    LET s == name_spec[u.content]
    IN  IF s # <<>> /\ s[1].min_level # NullLevel THEN s ELSE <<>>

\* The last check of on_event computed a level below the command's minimum
BelowMin(u) ==
    /\ Restricted(u) # <<>>
    /\ u.user_level # <<>>
    /\ u.user_level[1] < Restricted(u)[1].min_level[1]

\* C2: when a command with a minimum level L is sent by a user whose computed
\* level is below L, the handler of the command is never invoked and the
\* permission denial is the reply. (on_event reads no allow-list: this holds
\* whether or not the sender is on one.)
C2_BelowMinLevelDenied ==
    \A i \in 1..Len(units) :
        BelowMin(units[i]) =>
            units[i].handler = "none" /\ units[i].replies = <<DeniedReply>>

\* A well-formed stop command of a user below the minimum level has been
\* answered with the denial
C2_Witness ==
    \E i \in 1..Len(units) :
        /\ BelowMin(units[i])
        /\ parse_command[units[i].content].kind = "ok"
        /\ units[i].pc = "finished"
        /\ units[i].replies = <<DeniedReply>>

\* C3, as stated: being on the allow-list acl.stop satisfies the minimum level
\* of the stop command: when a user who is on the list sends stop, the check
\* of on_event does not answer with the permission denial.
C3_AllowListSatisfiesStop ==
    [][\A i \in 1..Len(units) :
          (/\ units[i].pc = "pre_level"
           /\ parse_command[units[i].content].kind = "ok"
           /\ parse_command[units[i].content].name = "stop"
           /\ units[i].sender \in acl_stop
           /\ units'[i].pc # "pre_level")
          => units'[i].replies # <<DeniedReply>>]_vars

\* The arguments of the unit's restricted command do not parse
Malformed(u) ==
    Restricted(u) # <<>> /\ parse_command[u.content].kind = "error"

\* C4: the check on the name of the command comes before the parsing of its
\* arguments: for a restricted command whose arguments are missing or in
\* excess, a reply other than the permission denial is sent only once the
\* check has found the sender's level sufficient, and a sender below the
\* minimum level gets the permission denial as the only reply.
C4_CheckBeforeParsing ==
    \A i \in 1..Len(units) :
        Malformed(units[i]) =>
            /\ (\E k \in 1..Len(units[i].replies) : units[i].replies[k] # DeniedReply)
                  => (/\ units[i].user_level # <<>>
                      /\ units[i].user_level[1] >= Restricted(units[i])[1].min_level[1])
            /\ BelowMin(units[i]) => units[i].replies = <<DeniedReply>>

\* Two users below the minimum level, one with a required argument missing
\* and one with an argument in excess, have both been answered with the
\* denial alone
C4_Witness ==
    /\ Len(units) = 2
    /\ units[1].content # units[2].content
    /\ \A i \in 1..2 :
          /\ Malformed(units[i])
          /\ BelowMin(units[i])
          /\ units[i].pc = "finished"
          /\ units[i].replies = <<DeniedReply>>

-----------------------------------------------------------------------------
(* Properties of _compute_user_level, under SpecLevel                        *)

\* The facts about a user, ordered: "no" below "yes"
FactLeq(a, b) == a = "no" \/ b = "yes"

\* C9: _compute_user_level is monotonic in the facts it is given: under every
\* configuration of the role levels, making one more of "the user is the bot
\* owner", "the user is an organization admin", "the user is an organization
\* owner" true never lowers the level of the call that was made.
C9_LevelMonotonic ==
    (lv_out.done /\ lv_in.is_owner # "raise" /\ lv_in.is_admin # "raise") =>
        \A user_id \in LevelUsers, o \in {"no", "yes"}, a \in {"no", "yes"} :
            (/\ (lv_in.user_id = lv_in.owner => user_id = lv_in.owner)
             /\ FactLeq(lv_in.is_owner, o)
             /\ FactLeq(lv_in.is_admin, a))
            => lv_out.level <= compute_user_level(lv_in.rl, lv_in.owner, lv_in.perms,
                                                  user_id, o, a).level

\* C10: when the query for organization owner or organization admin raises,
\* the call of _compute_user_level does not raise, and it returns the level
\* of a user who is neither: the base level, raised to the bot owner level
\* when the user is the configured bot owner.
C10_QueryFailureIsNeither ==
    (/\ lv_out.done
     /\ lv_in.perms
     /\ (lv_in.is_owner = "raise" \/ (lv_in.is_owner = "no" /\ lv_in.is_admin = "raise")))
    => /\ ~lv_out.raised
       /\ lv_out.level =
            IF lv_in.owner # 0 /\ lv_in.user_id = lv_in.owner
            THEN Max(Get(lv_in.rl, "user", DefaultUserLevel),
                     Get(lv_in.rl, "bot_owner", DefaultBotOwnerLevel))
            ELSE Get(lv_in.rl, "user", DefaultUserLevel)

\* A call for the bot owner whose organization owner query raised, and which
\* returned the bot owner level above the base level
C10_Witness ==
    /\ lv_out.done
    /\ lv_in.perms
    /\ lv_in.is_owner = "raise"
    /\ lv_in.user_id = lv_in.owner
    /\ ~lv_out.raised
    /\ lv_out.level = Get(lv_in.rl, "bot_owner", DefaultBotOwnerLevel)
    /\ lv_out.level > Get(lv_in.rl, "user", DefaultUserLevel)

----------------------------------------------------------------------------
(* Isolation of a failing unit *)

\* The replies on_event sends for a denial, a parse failure or a handler error
FailureReplies ==
    {DeniedReply, "Command error: handler", "Command error: No handler registered"}
    \cup {"Command error: " \o parse_command[c].msg :
            c \in {d \in Contents : parse_command[d].kind = "error"}}

\* The unit was denied, failed to parse, or its handler raised
Failed(u) ==
    \/ u.pc = "raised"
    \/ u.replies # <<>> /\ u.replies[Len(u.replies)] \in FailureReplies

\* The other unit is as it was, or was waiting at the gate and is handed the
\* slot the failing unit released
Untouched(j) ==
    \/ units'[j] = units[j]
    \/ /\ units[j].pc = "waiting"
       /\ units'[j] = [units[j] EXCEPT !.pc = "granted"]

\* C11: a step of a unit that was denied, failed to parse or whose handler
\* raised leaves the intake loop running, and leaves every other unit's
\* outcome, replies, slot and registration in _tasks as they were (a waiter
\* may be handed the slot the failing unit released)
C11_FailureIsolated ==
    [][\A i \in 1..Len(units) :
          (Len(units') = Len(units) /\ units'[i] # units[i] /\ Failed(units'[i]))
          => /\ intake' = intake
             /\ tasks' \ {i} = tasks \ {i}
             /\ \A j \in 1..Len(units) \ {i} : Untouched(j)]_vars

\* One unit ended with the exception of its handler while the other unit, in
\* flight at the same time, finished with its normal reply
C11_Witness ==
    \E i, j \in 1..Len(units) :
        /\ units[i].pc = "raised"
        /\ units[j].pc = "finished" /\ units[j].replies = <<"Count">>
        /\ j \in tasks
        /\ intake = "running"

\* C12: whatever a handler raises, a command's handler or the plain-message
\* on_message, is caught inside the unit and answered with an error reply: no
\* unit ends with the exception of its handler and no error reply
C12_HandlerErrorBecomesReply ==
    \A i \in 1..Len(units) :
        units[i].pc = "raised"
        => /\ units[i].replies # <<>>
           /\ units[i].replies[Len(units[i].replies)] \in FailureReplies

\* C15: a message whose sender is the bot's own user is dropped before anything
\* else: its unit never computes a level, never parses or reaches a handler or
\* on_message (it is never suspended in one and never raises), and sends no
\* reply, whatever its text
C15_OwnMessagesDropped ==
    \A i \in 1..Len(units) :
        units[i].sender = BotUserId
        => /\ units[i].replies = <<>>
           /\ units[i].handler = "none"
           /\ units[i].user_level = <<>>
           /\ units[i].level = 0
           /\ units[i].pc \in {"new", "waiting", "granted", "finished", "cancelled"}

\* The bot's own messages were handled to the end: one naming a restricted
\* command, one naming a command of the subclass
C15_Witness ==
    \E i, j \in 1..Len(units) :
        /\ units[i].sender = BotUserId /\ units[i].content = <<"!", "perm">>
        /\ units[j].sender = BotUserId /\ units[j].content = <<"!", "count">>
        /\ units[i].pc = "finished" /\ units[j].pc = "finished"

----------------------------------------------------------------------------
(* The stop command and the runner *)

\* C13: once the built-in stop command was accepted (its handler sent the
\* stop notice and returned) the runner has received the stop request: its
\* shutdown has begun or run_forever has returned
C13_AcceptedStopReachesRunner ==
    \A i \in 1..Len(units) :
        (/\ units[i].handler = "_handle_stop"
         /\ units[i].pc = "finished"
         /\ units[i].replies = <<StoppingReply>>)
        => (stop_pc # "idle" \/ intake = "ended")

----------------------------------------------------------------------------
(* Startup *)

\* C14: the event loop never runs on a half-initialized bot: whenever
\* run_forever is in its event loop, a start() of this runner has completed
\* all of post_init, ensure_session and on_start
C14_LoopOnlyAfterStartup == intake = "running" => startup.started

----------------------------------------------------------------------------
(* The in-flight set *)

\* C16: _tasks holds exactly the scheduled units that are not yet terminal,
\* under every interleaving of scheduling, completion and stop(): a unit that
\* is not terminal is in _tasks, and a unit in _tasks has not had its done
\* callback run (the callback runs one loop iteration after the task ends)
C16_TasksAreTheLiveUnits ==
    \A i \in 1..Len(units) :
        /\ units[i].pc \notin Terminal => i \in tasks
        /\ i \in tasks => ~units[i].cleaned

\* The units that hold a slot of the semaphore: woken at the gate, or inside
\* on_event
SlotHolders(us) == {i \in 1..Len(us) : us[i].pc \in Suspended \cup {"granted"}}

\* Unit i is granted a slot in this step: it acquires the free semaphore at
\* its start (and may run to its end in the same step) or is woken as a waiter
Granted(i) ==
    /\ units[i].pc \in {"new", "waiting"}
    /\ units'[i].pc \in Suspended \cup {"granted", "finished", "raised"}

\* C17 as stated: at the moment a unit is granted a slot of the gate, the
\* in-flight set _tasks holds at most max_concurrency tasks
C17_TasksAtMostCeilingAtGrant ==
    [][\A i \in 1..Len(units) :
          Granted(i) => Cardinality(tasks') <= max_concurrency]_vars

\* C17, amended: at the moment a unit is granted a slot, the units that hold
\* a slot are at most max_concurrency, and the free slots and the holders add
\* up to max_concurrency; _tasks also holds the units waiting at the gate and
\* has no bound
C17_HoldersAtMostCeilingAtGrant ==
    [][\A i \in 1..Len(units) :
          Granted(i)
          => /\ Cardinality(SlotHolders(units')) <= max_concurrency
             /\ sem_value' + Cardinality(SlotHolders(units')) = max_concurrency]_vars

\* A waiter was woken with every slot taken while _tasks holds more tasks than
\* the ceiling
C17_Witness ==
    /\ \E i \in 1..Len(units) : units[i].pc = "granted"
    /\ Cardinality(SlotHolders(units)) = max_concurrency
    /\ Cardinality(tasks) > max_concurrency

----------------------------------------------------------------------------
(* Order of admission *)

\* C18: events are admitted in the order received: of two units scheduled one
\* before the other and neither cancelled, the later one has not passed the
\* gate (been granted a slot) while the earlier one has not
C18_AdmittedInOrder ==
    \A a, b \in 1..Len(units) :
        (/\ a < b
         /\ ~units[a].cancel /\ ~units[b].cancel
         /\ units[b].pc \notin {"new", "waiting"})
        => units[a].pc \notin {"new", "waiting"}

\* Two units queued at the gate behind a third: the earlier one has been
\* handed the slot, the later one still waits, and the first to arrive is the
\* only one that has completed
C18_Witness ==
    /\ Len(units) = 3
    /\ units[1].pc = "finished" /\ units[1].replies # <<>>
    /\ units[2].pc = "granted"
    /\ units[3].pc = "waiting"
    /\ waiters = <<2, 3>>

----------------------------------------------------------------------------
(* Range of the permission level *)

\* C19: a computed permission level is a non-negative integer, also after any
\* sequence of perm roles_set and perm set_owner
C19_LevelNonNegative == lv_out.done => lv_out.level \in Nat

----------------------------------------------------------------------------
(* The identity alias set *)

Range(s) == {s[k] : k \in 1..Len(s)}

\* C20 as stated: under every parser operation the identity alias set only
\* grows: an alias in the set before the operation is in the set after it
C20_AliasSetOnlyGrows ==
    [][Range(parser.mention_aliases) \subseteq Range(parser'.mention_aliases)]_vars

\* C20, amended: add_identity_aliases and parsing never remove an alias (the
\* list after the call starts with the list before it), while set_mentions
\* replaces the list with the lowercased non-empty aliases it is given
C20_AliasesGrowUnlessSet ==
    [][/\ p_call'.op \in {"add_identity_aliases", "parse_message"}
          => /\ Len(parser.mention_aliases) <= Len(parser'.mention_aliases)
             /\ SubSeq(parser'.mention_aliases, 1, Len(parser.mention_aliases))
                  = parser.mention_aliases
       /\ p_call'.op = "set_mentions"
          => /\ Range(parser'.mention_aliases) \subseteq {Lower(a) : a \in Range(p_call'.args)}
             /\ "" \notin Range(parser'.mention_aliases)]_vars

\* The identity was added to a list set by set_mentions, and a message opened
\* by one of the added mentions parsed as a command
C20_Witness ==
    /\ parser.mention_aliases = <<"@ops", "@**bot**", "@bot", "@bot@z">>
    /\ p_call.op = "parse_message"
    /\ p_call.args = <<"@bot", " ", "help">>
    /\ p_call.result[1].kind \notin {"none", "error"}

----------------------------------------------------------------------------
(* The parser's contract *)

\* The trimmed text is empty or opens with no configured prefix, and with no
\* known identity alias (in any letter case) unless mentions are disabled
NoOpener(p, content) ==
    LET text == strip(content) IN
    \/ text = <<>>
    \/ /\ Head(text) \notin Range(p.prefixes)
       /\ \/ ~p.enable_mentions
          \/ Lower(Head(text)) \notin Range(p.mention_aliases)

\* C21: parse_message returns None, and raises nothing, for every text that
\* after trimming starts with no configured prefix and no known identity
\* alias, and for alias-opened text when mentions are disabled
C21_NoOpenerIsNone ==
    (p_call.op = "parse_message" /\ NoOpener(parser, p_call.args))
    => p_call.result[1].kind = "none"

\* With mentions disabled a text opened by a known alias parsed to None, while
\* the alias is in the set
C21_Witness ==
    /\ p_call.op = "parse_message"
    /\ p_call.args = <<"@Bot", ",", "help">>
    /\ ~parser.enable_mentions
    /\ "@bot" \in Range(parser.mention_aliases)
    /\ p_call.result[1].kind = "none"

\* One well-typed token for each required argument of a declaration list
RECURSIVE RequiredTokens(_)
RequiredTokens(args) ==
    IF args = <<>> THEN <<>>
    ELSE (IF ~Head(args).required THEN <<>>
          ELSE IF Head(args).type = "int" THEN <<"5">> ELSE <<"x">>)
         \o RequiredTokens(Tail(args))

\* C22: for every spec registered in a registry built by register_spec calls,
\* the prefix followed by the spec's name or one of its aliases and by all its
\* required arguments, well-typed, parses to an invocation that names the
\* spec's canonical name and refers to that spec
C22_NameOrAliasReachesSpec ==
    p_call.op = "parse_message"
    => \A n \in DOMAIN parser.specs :
         \A t \in {n} \cup Range(parser.specs[n].aliases) :
            p_call.args = <<"!", t>> \o Spaced(RequiredTokens(parser.specs[n].args))
            => /\ p_call.result[1].kind = "ok"
               /\ p_call.result[1].name = n
               /\ p_call.result[1].spec = parser.specs[n]

\* The texts that are an opener with no token after it
OpenerOnly == {<<"!">>, <<"@Bot", ":", " ">>}

\* The unit of such a message from another user, handled to its end
EmptyCommandDone(u) ==
    u.content \in OpenerOnly /\ u.sender # BotUserId /\ u.pc \in {"finished", "raised"}

----------------------------------------------------------------------------
(* Argument binding *)

\* The position of the first capture-remaining declaration, or one past the
\* last declaration
RECURSIVE MultiPos(_)
MultiPos(args) ==
    IF args = <<>> \/ Head(args).multiple THEN 1 ELSE 1 + MultiPos(Tail(args))

\* The value a token converts to for a declaration of type int or str
Converted(token, arg_spec) ==
    IF arg_spec.type = "int" THEN [t |-> "int", n |-> IntOf(token)]
    ELSE [t |-> "str", s |-> token]

\* The i-th declaration of the successful parse r, up to position last, has
\* the i-th argument token, converted, or None when it is optional and no
\* token is left for it
BoundInOrder(r, last) ==
    LET tokens == Tail(r.tokens) IN
    \A i \in 1..last :
        LET arg_spec == r.spec.args[i] IN
        ~arg_spec.multiple
        => /\ arg_spec.name \in DOMAIN r.args
           /\ r.args[arg_spec.name] =
                IF i <= Len(tokens) /\ i < MultiPos(r.spec.args)
                THEN Converted(tokens[i], arg_spec)
                ELSE NoneVal

\* C24 as stated: binding is positional and order-preserving, and every
\* declared optional argument that has no token is bound to None
C24_EveryDeclarationBound ==
    (p_call.op = "parse_message" /\ p_call.result[1].kind = "ok")
    => BoundInOrder(p_call.result[1], Len(p_call.result[1].spec.args))

\* C24, amended: the declarations before the first capture-remaining argument
\* are bound positionally, the i-th to the i-th token converted to its type,
\* an optional one with no token to None; the declarations after a
\* capture-remaining argument are not bound at all (the mapping has no entry
\* for them)
C24_BoundUpToCapture ==
    (p_call.op = "parse_message" /\ p_call.result[1].kind = "ok")
    => LET r == p_call.result[1]
           m == MultiPos(r.spec.args)
       IN  /\ BoundInOrder(r, IF m > Len(r.spec.args) THEN Len(r.spec.args) ELSE m)
           /\ \A i \in (m + 1)..Len(r.spec.args) : r.spec.args[i].name \notin DOMAIN r.args

\* "!add 5" against [a:int required, b:str optional] gave {a: 5, b: None}
C24_Witness ==
    /\ p_call.op = "parse_message"
    /\ p_call.args = <<"!", "add", " ", "5">>
    /\ p_call.result[1].kind = "ok"
    /\ p_call.result[1].name = "add"
    /\ DOMAIN p_call.result[1].args = {"a", "b"}
    /\ p_call.result[1].args["a"] = [t |-> "int", n |-> 5]
    /\ p_call.result[1].args["b"] = NoneVal

\* The parsed text names a registered spec with no capture-remaining argument
\* and carries more tokens than the spec declares, the declared ones well-typed
ExtraTokens(p, content) ==
    LET tokens == split(Tail(content))
        name == resolve_name(p, tokens[1])
    IN  /\ name \in DOMAIN p.specs
        /\ MultiPos(p.specs[name].args) > Len(p.specs[name].args)
        /\ Len(tokens) - 1 > Len(p.specs[name].args)
        /\ \A i \in 1..Len(p.specs[name].args) :
              p.specs[name].args[i].type = "int" => IsIntTok(tokens[i + 1])

\* C25: when tokens remain after all declared arguments are bound, parsing
\* fails with InvalidArguments ("Too many arguments") and produces no
\* invocation if the spec does not allow extra tokens, and succeeds on the
\* same text if it does
C25_ExtraTokensRejected ==
    (p_call.op = "parse_message" /\ ExtraTokens(parser, p_call.args))
    => LET spec == parser.specs[resolve_name(parser, split(Tail(p_call.args))[1])]
           r == p_call.result[1]
       IN  IF spec.allow_extra
           THEN r.kind = "ok" /\ r.spec = spec
           ELSE r.kind = "error" /\ r.err = "InvalidArgumentsError"
                /\ r.msg = "Too many arguments"

\* "!add 5 x y" failed against add registered without allow_extra
C25_Witness ==
    /\ p_call.op = "parse_message"
    /\ p_call.args = <<"!", "add", " ", "5", " ", "x", " ", "y">>
    /\ "add" \in DOMAIN parser.specs
    /\ ~parser.specs["add"].allow_extra
    /\ "add" \notin DOMAIN parser.alias_index
    /\ p_call.result[1].kind = "error"
    /\ p_call.result[1].msg = "Too many arguments"

\* The tokens of a successful parse from the position of its spec's
\* capture-remaining argument to the end, converted, in order
Remaining(r) ==
    LET tokens == Tail(r.tokens)
        m == MultiPos(r.spec.args)
    IN  [k \in 1..(IF Len(tokens) >= m THEN Len(tokens) - m + 1 ELSE 0)
            |-> Converted(tokens[m - 1 + k], r.spec.args[m])]

\* C26: a capture-remaining argument is bound to every token from its
\* position to the end, in order, the empty sequence when there is none, and
\* a parse against a spec that contains one never fails with "Too many
\* arguments"
C26_CaptureTakesTheRest ==
    p_call.op = "parse_message"
    => LET r == p_call.result[1] IN
       /\ (r.kind = "ok" /\ MultiPos(r.spec.args) <= Len(r.spec.args))
          => LET arg_spec == r.spec.args[MultiPos(r.spec.args)] IN
             /\ arg_spec.name \in DOMAIN r.args
             /\ r.args[arg_spec.name] = [t |-> "list", l |-> Remaining(r)]
       /\ (r.kind = "error" /\ r.msg = "Too many arguments")
          => LET spec == parser.specs[resolve_name(parser, split(Tail(p_call.args))[1])]
             IN  MultiPos(spec.args) > Len(spec.args)

\* "!say a b c" bound text to the three tokens
C26_Witness ==
    /\ p_call.op = "parse_message"
    /\ p_call.args = <<"!", "say", " ", "a", " ", "b", " ", "c">>
    /\ p_call.result[1].kind = "ok"
    /\ p_call.result[1].args["text"] =
          [t |-> "list", l |-> <<[t |-> "str", s |-> "a"], [t |-> "str", s |-> "b"],
                                 [t |-> "str", s |-> "c"]>>]

----------------------------------------------------------------------------
(* End to end *)

EchoText == <<"!", "echo", " ", "hello", " ", "world">>

\* C27: the message "!echo hello world" of a sender other than the bot makes
\* exactly one send_reply call, with content "hello world": no unit with that
\* message ever has another reply or raises, and one that has ended has that
\* one reply, sent by the echo handler
C27_EchoRepliesOnce ==
    \A i \in 1..Len(units) :
        (units[i].content = EchoText /\ units[i].sender # BotUserId)
        => /\ units[i].replies \in {<<>>, <<"hello world">>}
           /\ units[i].pc # "raised"
           /\ units[i].pc = "finished"
              => /\ units[i].replies = <<"hello world">>
                 /\ units[i].handler = "_handle_echo"

\* The echo command of user 3 was answered and its unit has ended
C27_Witness ==
    \E i \in 1..Len(units) :
        /\ units[i].content = EchoText /\ units[i].sender = 3
        /\ units[i].pc = "finished"
        /\ units[i].replies = <<"hello world">>

\* C28: a message whose first token after the opener names no registered
\* command or alias ("!unknown") makes exactly one send_reply call, whose
\* content contains "Unknown command", and runs neither a registered handler
\* nor on_message
C28_UnknownCommandRepliesOnce ==
    \A i \in 1..Len(units) :
        (units[i].content = <<"!", "unknown">> /\ units[i].sender # BotUserId)
        => /\ units[i].replies \in {<<>>, <<"Command error: Unknown command: unknown">>}
           /\ units[i].handler = "none"
           /\ units[i].pc # "raised"
           /\ units[i].pc = "finished"
              => units[i].replies = <<"Command error: Unknown command: unknown">>

\* "!unknown" of user 3 was answered and its unit has ended
C28_Witness ==
    \E i \in 1..Len(units) :
        /\ units[i].content = <<"!", "unknown">> /\ units[i].sender = 3
        /\ units[i].pc = "finished"
        /\ Len(units[i].replies) = 1

----------------------------------------------------------------------------
(* The help command *)

\* The help text that lists the commands a user of the given level may run:
\* those whose min_level is null or at most the level
HelpVisibleTo(level) ==
    generate_help([BotParser EXCEPT !.names =
        SelectSeq(@, LAMBDA n : \/ BotParser.specs[n].min_level = NullLevel
                                \/ BotParser.specs[n].min_level[1] <= level)])

\* C29: the help reply sent to a user lists only the commands whose
\* min_level is null or at most the level computed for that user, whatever
\* the remote permission queries answer
C29_HelpHidesHigherLevels ==
    \A i \in 1..Len(units) :
        (units[i].content = <<"!", "help">> /\ units[i].sender # BotUserId
            /\ units[i].replies # <<>>)
        => \E is_owner \in Answers, is_admin \in Answers :
              units[i].replies[1] =
                  HelpVisibleTo(compute_user_level(role_levels, owner_user_id, TRUE,
                                    units[i].sender, is_owner, is_admin).level)

----------------------------------------------------------------------------
(* Release of the slot *)

\* C30: every slot a unit acquires is released when the unit ends, whether
\* on_event returned, raised or was cancelled: in every state the free slots
\* and the units that hold one (woken at the gate or inside on_event) add up
\* to max_concurrency, and once every unit has ended all slots are free
C30_SlotsReleased ==
    /\ sem_value + Cardinality(SlotHolders(units)) = max_concurrency
    /\ (\A i \in 1..Len(units) : units[i].pc \in Terminal)
       => sem_value = max_concurrency

\* Three units have ended, one returned, one raised and one cancelled inside
\* on_event, and every slot is free
C30_Witness ==
    /\ \A i \in 1..Len(units) : units[i].pc \in Terminal
    /\ \E i, j, k \in 1..Len(units) :
          /\ units[i].pc = "finished" /\ units[i].replies # <<>>
          /\ units[j].pc = "raised"
          /\ units[k].pc = "cancelled" /\ units[k].handler # "none"
    /\ sem_value = max_concurrency

----------------------------------------------------------------------------
(* Shutdown drains the units *)

\* C31: stop() drains all in-flight units: at the step in which stop() goes
\* on to bot.on_stop(), every unit _handle_event has spawned, also one
\* spawned while stop() waited for earlier units, has ended (cancelled,
\* finished or raised), so no running unit is left out of _tasks
C31_StopDrainsEveryUnit ==
    [][(stop_pc # "on_stop" /\ stop_pc' = "on_stop")
         => \A i \in 1..Len(units') : units'[i].pc \in Terminal]_vars

\* C32: a unit that stop() cancels while it waits for a slot of the gate
\* never runs on_event, never holds a slot and sends no reply: its only step
\* ends it as cancelled with no handler and no reply; and the only step of a
\* cancelled unit is its done callback, which removes it from _tasks
C32_CancelledWaiterNeverRuns ==
    [][\A i \in 1..Len(units) :
          /\ (units[i].pc = "waiting" /\ units[i].cancel /\ units'[i] # units[i])
             => /\ units'[i].pc = "cancelled"
                /\ units'[i].handler = "none"
                /\ units'[i].replies = <<>>
                /\ i \notin SlotHolders(units')
          /\ (units[i].pc = "cancelled" /\ units'[i] # units[i])
             => /\ units'[i] = [units[i] EXCEPT !.cleaned = TRUE]
                /\ i \notin tasks']_vars

\* stop() awaits its gather after it cancelled a unit that waits at the gate
\* behind a unit that holds the only slot
C32_Witness ==
    /\ max_concurrency = 1
    /\ stop_pc = "gather"
    /\ \E i, j \in 1..Len(units) :
          /\ units[i].pc = "waiting" /\ units[i].cancel /\ i \in gathered
          /\ units[j].pc = "sending" /\ units[j].cancel

----------------------------------------------------------------------------
(* The check bound to the invocation *)

\* C33: the handler of a command with min_level L is invoked only if the
\* level computed anew in the check after parsing is at least L: the step
\* that ends that check records a level computed from the role levels as they
\* are now and from the remote answers given now; if that level is below L
\* (whatever the early check had found) no handler is invoked and the
\* permission denial is sent, otherwise the command is dispatched
C33_SecondCheckDecides ==
    [][\A i \in 1..Len(units) :
          (units[i].pc = "post_level" /\ units'[i] # units[i])
          => LET spec == parse_command[units[i].content].spec
                 u == units'[i]
             IN  /\ u.user_level # <<>>
                 /\ \E is_owner \in Answers, is_admin \in Answers :
                       u.user_level[1] =
                           level_remote(units[i].level, role_levels, TRUE, is_owner, is_admin)
                 /\ IF u.user_level[1] < spec.min_level[1]
                    THEN /\ u.handler = "none"
                         /\ u.replies = Append(units[i].replies, DeniedReply)
                    ELSE u.handler = spec.handler]_vars

\* User 3 passed the early check of stop with a level of at least 50 and is
\* in the check after parsing, while perm roles_set has lowered the admin
\* level to 0
C33_Witness ==
    \E i \in 1..Len(units) :
        /\ units[i].pc = "post_level"
        /\ units[i].sender = 3
        /\ units[i].content = <<"!", "stop">>
        /\ units[i].user_level # <<>>
        /\ units[i].user_level[1] >= 50
        /\ role_levels["admin"] = 0

----------------------------------------------------------------------------
(* The two lookups of on_event *)

\* C34: with a registry and an alias index that do not change while an event
\* is processed, the spec the name-only early lookup selects is the spec the
\* parsed invocation is bound to: for every parse of a text against a
\* registry built by register_spec calls, aliases that shadow names
\* included, and for every text of the bot's own registry, an invocation
\* refers to the spec the early lookup finds, and a text for which the early
\* lookup finds no spec yields no invocation
C34_PrecheckSelectsParsedSpec ==
    /\ p_call.op = "parse_message"
       => LET pre == precheck_spec(parser, p_call.args)
              r == p_call.result[1]
          IN  /\ r.kind = "ok" => pre = <<r.spec>>
              /\ pre = <<>> => r.kind # "ok"
    /\ \A content \in Contents :
          /\ parse_command[content].kind = "ok"
             => name_spec[content] = <<parse_command[content].spec>>
          /\ name_spec[content] = <<>> => parse_command[content].kind # "ok"

\* "!add" was parsed while add is both a registered name and an alias of
\* sum: the invocation and the early lookup both select sum
C34_Witness ==
    /\ p_call.op = "parse_message"
    /\ p_call.args = <<"!", "add">>
    /\ "add" \in DOMAIN parser.specs
    /\ p_call.result[1].kind = "ok"
    /\ p_call.result[1].name = "sum"
    /\ precheck_spec(parser, p_call.args) = <<parser.specs["sum"]>>

----------------------------------------------------------------------------
(* Plain messages *)

\* The unit carries a message of another user that has no command opener
PlainMessage(u) == NoOpener(BotParser, u.content) /\ u.sender # BotUserId

\* C35: a message of a sender other than the bot that has no command opener
\* goes to on_message, once: its unit never is in a permission check or in a
\* command handler and records no level; once on_event has run it is
\* on_message that was called; and the only reply the unit can have is the
\* one on_message itself sends, none at all when on_message raises
C35_PlainMessageToOnMessage ==
    \A i \in 1..Len(units) :
        PlainMessage(units[i])
        => /\ units[i].pc \in {"new", "waiting", "granted", "sending", "finished", "raised"}
           /\ units[i].user_level = <<>>
           /\ units[i].handler = IF units[i].pc \in {"sending", "finished", "raised"}
                                 THEN "on_message" ELSE "none"
           /\ units[i].replies \in {<<>>, <<"Echo">>}
           /\ units[i].pc = "raised" => units[i].replies = <<>>
           /\ units[i].pc \in {"sending", "finished"} => units[i].replies = <<"Echo">>

\* Two plain messages were handled: on_message replied to one and raised on
\* the other
C35_Witness ==
    \E i, j \in 1..Len(units) :
        /\ PlainMessage(units[i]) /\ PlainMessage(units[j])
        /\ units[i].pc = "finished" /\ units[i].replies = <<"Echo">>
        /\ units[i].handler = "on_message"
        /\ units[j].pc = "raised" /\ units[j].handler = "on_message"

----------------------------------------------------------------------------
(* The minimum levels of the built-in commands *)

\* The minimum level of stop and of perm as _register_commands read it from
\* the role levels the bot started with
RegisteredMin(u) ==
    IF name_spec[u.content][1].name = "stop"
    THEN Get(DefaultRoleLevels, "admin", DefaultAdminLevel)
    ELSE Get(DefaultRoleLevels, "bot_owner", DefaultBotOwnerLevel)

\* C36: the minimum on_event enforces for stop and perm is the value read
\* from the role levels at registration, whatever perm roles_set has made of
\* the role levels since: a unit whose check has computed a level is denied
\* by on_event exactly when that level is below the registered value
C36_RegisteredMinimumEnforced ==
    \A i \in 1..Len(units) :
        (/\ name_spec[units[i].content] # <<>>
         /\ name_spec[units[i].content][1].name \in {"stop", "perm"}
         /\ units[i].user_level # <<>>)
        => /\ name_spec[units[i].content][1].min_level = <<RegisteredMin(units[i])>>
           /\ (units[i].user_level[1] < RegisteredMin(units[i]))
              <=> (units[i].handler = "none" /\ units[i].replies = <<DeniedReply>>)

\* After perm roles_set has set the admin level to 0, on_event denied stop
\* to user 3 at level 1, which the admin level as it is now would admit
C36_Witness ==
    \E i \in 1..Len(units) :
        /\ units[i].content = <<"!", "stop">>
        /\ units[i].sender = 3
        /\ role_levels["admin"] = 0
        /\ units[i].user_level = <<1>>
        /\ units[i].replies = <<DeniedReply>>
        /\ \E j \in 1..(i - 1) :
              /\ units[j].content = <<"!", "perm", " ", "roles_set", " ", "admin", " ", "0">>
              /\ units[j].pc = "finished"

----------------------------------------------------------------------------
(* The keys of the parsed arguments *)

\* The names declared up to and including the first capture-remaining
\* argument, all declared names when there is none
NamesUpToCapture(args) ==
    {args[i].name : i \in {k \in 1..Len(args) : k <= MultiPos(args)}}

\* C37: after a successful parse the keys of the invocation's args are
\* exactly the names declared up to and including the first capture-remaining
\* argument; an argument declared after it gets no key and is never reported
\* missing, required or not
C37_KeysUpToCapture ==
    p_call.op = "parse_message"
    => LET r == p_call.result[1] IN
       /\ r.kind = "ok" => DOMAIN r.args = NamesUpToCapture(r.spec.args)
       /\ (r.kind = "error" /\ r.err = "InvalidArgumentsError")
          => LET spec == parser.specs[resolve_name(parser, split(Tail(p_call.args))[1])]
             IN  \A i \in 1..Len(spec.args) :
                    r.msg = "Missing argument: " \o spec.args[i].name
                    => i < MultiPos(spec.args)

\* "!note" parsed to an invocation whose only key is text, although note
\* declares the required argument who after its capture-remaining argument
C37_Witness ==
    /\ p_call.op = "parse_message"
    /\ p_call.args = <<"!", "note">>
    /\ p_call.result[1].kind = "ok"
    /\ p_call.result[1].spec.args[2].required
    /\ DOMAIN p_call.result[1].args = {"text"}

----------------------------------------------------------------------------
(* main.py: run_all_bots, the runners of several bots under one              *)
(* AsyncExitStack. A runner is entered by __aenter__ (start) and left by     *)
(* __aexit__ (stop); its run loop is the task of run_forever.                *)

NumBots == 3

\* A BotRunner of the list: whether its start() has returned, the state of
\* the task of its run_forever, and the number of calls of its stop()
NewRunner == [started |-> FALSE, loop |-> "none", stops |-> 0]

\* enter_async_context that registers __aexit__ also when __aenter__ raised
push_context_always(stack, k, ok) == Append(stack, k)

\* stack.enter_async_context(runner): __aexit__ is registered once __aenter__
\* has returned
push_context(stack, k, ok) == IF ok THEN Append(stack, k) ELSE stack

\* tasks = [asyncio.create_task(r.run_forever()) for r in started]
create_tasks(rs) ==
    [i \in DOMAIN rs |-> IF rs[i].started THEN [rs[i] EXCEPT !.loop = "running"] ELSE rs[i]]

\* "for task in tasks: task.cancel()": no effect on a task that is done
cancel_tasks(rs) ==
    [i \in DOMAIN rs |->
        IF rs[i].loop = "running" THEN [rs[i] EXCEPT !.loop = "cancelling"] ELSE rs[i]]

\* The stack unwinds, or run_all_bots has ended when nothing was entered
Unwind(stack) == IF stack # <<>> THEN "exit" ELSE "done"

\* runner.start() of the runner being entered returns (ok) or raises: the
\* loop goes on to the next runner, creates the tasks after the last one, or
\* leaves the "async with" on the failure
EnterDone(ok) ==
    /\ group.pc = "enter"
    /\ LET rs == [group.runners EXCEPT ![group.k].started = ok]
           stack == push_context(group.stack, group.k, ok)
       IN  group' =
             IF ~ok
             THEN [group EXCEPT !.runners = rs, !.stack = stack, !.outcome = "error",
                                !.pc = Unwind(stack)]
             ELSE IF group.k < Len(rs)
             THEN [group EXCEPT !.runners = rs, !.stack = stack, !.k = @ + 1]
             ELSE [group EXCEPT !.runners = create_tasks(rs), !.stack = stack,
                                !.pc = "gather"]
    /\ UNCHANGED <<role_levels, owner_user_id, acl_stop, sem_value, waiters, tasks,
                   units, max_concurrency, stop_pc, gathered, intake, lv_in, lv_out,
                   startup, parser, p_call, db>>

\* run_forever of runner i returns or raises while run_all_bots awaits the
\* first gather: an exception ends the gather at once, a return ends it when
\* every task has returned; the finally block then cancels every task
LoopEnds(i, raises) ==
    /\ group.pc = "gather"
    /\ i \in DOMAIN group.runners
    /\ group.runners[i].loop = "running"
    /\ LET rs == [group.runners EXCEPT ![i].loop = IF raises THEN "raised" ELSE "returned"]
       IN  group' =
             IF raises
             THEN [group EXCEPT !.runners = cancel_tasks(rs), !.outcome = "error",
                                !.pc = "finally"]
             ELSE IF \A j \in DOMAIN rs : rs[j].loop = "returned"
             THEN [group EXCEPT !.runners = cancel_tasks(rs), !.outcome = "ok",
                                !.pc = "finally"]
             ELSE [group EXCEPT !.runners = rs]
    /\ UNCHANGED <<role_levels, owner_user_id, acl_stop, sem_value, waiters, tasks,
                   units, max_concurrency, stop_pc, gathered, intake, lv_in, lv_out,
                   startup, parser, p_call, db>>

\* run_all_bots is cancelled while it awaits the first gather: the gather
\* cancels its tasks and CancelledError reaches the finally block
GroupCancelled ==
    /\ group.pc = "gather"
    /\ group' = [group EXCEPT !.runners = cancel_tasks(@), !.outcome = "cancelled",
                              !.pc = "finally"]
    /\ UNCHANGED <<role_levels, owner_user_id, acl_stop, sem_value, waiters, tasks,
                   units, max_concurrency, stop_pc, gathered, intake, lv_in, lv_out,
                   startup, parser, p_call, db>>

\* CancelledError is thrown into run_forever at call_on_each_event
LoopCancelled(i) ==
    /\ i \in DOMAIN group.runners
    /\ group.runners[i].loop = "cancelling"
    /\ group' = [group EXCEPT !.runners[i].loop = "cancelled"]
    /\ UNCHANGED <<role_levels, owner_user_id, acl_stop, sem_value, waiters, tasks,
                   units, max_concurrency, stop_pc, gathered, intake, lv_in, lv_out,
                   startup, parser, p_call, db>>

\* "await asyncio.gather(*tasks, return_exceptions=True)" returns: every task
\* is done; the "async with" is left
FinallyDone ==
    /\ group.pc = "finally"
    /\ \A i \in DOMAIN group.runners : group.runners[i].loop \notin {"running", "cancelling"}
    /\ group' = [group EXCEPT !.pc = Unwind(group.stack)]
    /\ UNCHANGED <<role_levels, owner_user_id, acl_stop, sem_value, waiters, tasks,
                   units, max_concurrency, stop_pc, gathered, intake, lv_in, lv_out,
                   startup, parser, p_call, db>>

\* AsyncExitStack.__aexit__ calls the __aexit__ registered last: stop() of
\* that runner, which returns or raises; the stack goes on either way
ExitStop(raises) ==
    /\ group.pc = "exit"
    /\ LET top == group.stack[Len(group.stack)]
           stack == SubSeq(group.stack, 1, Len(group.stack) - 1)
       IN  group' = [group EXCEPT !.runners[top].stops = @ + 1,
                                  !.stack = stack,
                                  !.outcome = IF raises THEN "error" ELSE @,
                                  !.pc = Unwind(stack)]
    /\ UNCHANGED <<role_levels, owner_user_id, acl_stop, sem_value, waiters, tasks,
                   units, max_concurrency, stop_pc, gathered, intake, lv_in, lv_out,
                   startup, parser, p_call, db>>

\* run_all_bots called with one to NumBots bot specs, in its first
\* enter_async_context
InitGroup ==
    /\ role_levels = DefaultRoleLevels
    /\ owner_user_id = 2
    /\ acl_stop = {}
    /\ max_concurrency = 1
    /\ sem_value = 1
    /\ waiters = <<>>
    /\ tasks = {}
    /\ units = <<>>
    /\ stop_pc = "idle"
    /\ gathered = {}
    /\ intake = "ended"
    /\ lv_in = NoLevelCall
    /\ lv_out = NoLevelResult
    /\ startup = Started
    /\ parser = BotParser
    /\ p_call = NoParserCall
    /\ db = [pc |-> "none"]
    /\ \E n \in 1..NumBots :
          group = [pc |-> "enter", k |-> 1, runners |-> [i \in 1..n |-> NewRunner],
                   stack |-> <<>>, outcome |-> "none"]

NextGroup ==
    \/ \E ok \in BOOLEAN : EnterDone(ok)
    \/ \E i \in 1..NumBots, raises \in BOOLEAN : LoopEnds(i, raises)
    \/ GroupCancelled
    \/ \E i \in 1..NumBots : LoopCancelled(i)
    \/ FinallyDone
    \/ \E raises \in BOOLEAN : ExitStop(raises)

SpecGroup == InitGroup /\ [][NextGroup]_vars

\* The start of the runner run_all_bots was entering has failed
StartFailed ==
    group.pc \in {"exit", "done"} /\ ~group.runners[group.k].started

\* C38: when a run loop ends with an error or the group is cancelled, the
\* run loops of all other bots are cancelled and awaited, and stop() is then
\* called on every runner that was started: stop() is called on no runner
\* while a run loop still runs, no loop is left uncancelled after the error
\* or the cancellation, and at the end stop() was called once on each started
\* runner and on no other; when the start of the k-th runner fails, no run
\* loop was launched and the runners stopped are the k-1 started ones
C38_GroupShutsDownTogether ==
    group.pc # "none"
    => LET rs == group.runners IN
       /\ (\E i \in DOMAIN rs : rs[i].stops > 0)
          => \A j \in DOMAIN rs : rs[j].loop \notin {"running", "cancelling"}
       /\ (group.outcome \in {"error", "cancelled"} \/ \E i \in DOMAIN rs : rs[i].loop = "raised")
          => \A j \in DOMAIN rs : rs[j].loop # "running"
       /\ group.pc = "done"
          => \A i \in DOMAIN rs : rs[i].stops = IF rs[i].started THEN 1 ELSE 0
       /\ StartFailed
          => /\ \A j \in DOMAIN rs : rs[j].loop = "none"
             /\ \A j \in DOMAIN rs : rs[j].started <=> j < group.k
             /\ group.pc = "done" => \A j \in DOMAIN rs : rs[j].stops > 0 <=> j < group.k

\* Three bots ran; the run loop of one raised, the other two were cancelled
\* and awaited, and stop() has been called on all three
C38_Witness ==
    /\ group.pc = "done"
    /\ Len(group.runners) = 3
    /\ \E i \in 1..3 :
          /\ group.runners[i].loop = "raised"
          /\ \A j \in (1..3) \ {i} : group.runners[j].loop = "cancelled"
    /\ \A i \in 1..3 : group.runners[i].stops = 1

----------------------------------------------------------------------------
(* The database path: BaseBot._init_storage and _init_orm at runtime, and    *)
(* main.py's _resolve_bot_db_path for the migration commands. A path is <<>> *)
(* (None) or <<string>>.                                                     *)

\* __name__.lower() of the bot classes considered
class_name_lower(name) ==
    CASE name = "EchoBot" -> "echobot"
      [] name = "Bot" -> "bot"

\* BaseBot._init_storage, as far as the paths go
init_storage(d) ==
    IF ~d.enable_storage THEN d
    ELSE IF d.storage_path = <<>>
    THEN [d EXCEPT !.storage_path = <<"bot_data/" \o class_name_lower(d.name) \o ".db">>]
    ELSE d

\* BaseBot._init_orm, as far as the paths go: dir is the name of the
\* directory of the class's module, <<>> when it cannot be found
init_orm(d) ==
    IF ~d.enable_orm THEN d
    ELSE IF d.orm_db_path # <<>> THEN d
    ELSE IF d.enable_storage /\ d.storage_path # <<>>
    THEN [d EXCEPT !.orm_db_path = d.storage_path]
    ELSE LET db_name == IF d.dir # <<>> THEN d.dir[1] ELSE class_name_lower(d.name)
         IN  [d EXCEPT !.orm_db_path = <<"bot_data/" \o db_name \o ".sqlite">>]

\* main._resolve_bot_db_path on the class attributes
resolve_bot_db_path(d) ==
    IF d.cls_orm_db_path # <<>> /\ d.cls_orm_db_path # <<"">> THEN d.cls_orm_db_path
    ELSE IF d.cls_storage_path # <<>> /\ d.cls_storage_path # <<"">> THEN d.cls_storage_path
    ELSE <<"bot_data/" \o class_name_lower(d.name) \o ".db">>

\* post_init runs _init_storage and then _init_orm on the instance
PostInitPaths ==
    /\ db.pc = "class"
    /\ ~db.ran
    /\ db' = [init_orm(init_storage(db)) EXCEPT !.ran = TRUE]
    /\ UNCHANGED <<role_levels, owner_user_id, acl_stop, sem_value, waiters, tasks,
                   units, max_concurrency, stop_pc, gathered, intake, lv_in, lv_out,
                   startup, parser, p_call, group>>

\* _make_migrations: the class has passed _ensure_bot_orm_enabled, and the
\* path is resolved from it
MakeMigrations ==
    /\ db.pc = "class"
    /\ db.enable_orm
    /\ db.resolved = <<>>
    /\ db' = [db EXCEPT !.resolved = resolve_bot_db_path(db)]
    /\ UNCHANGED <<role_levels, owner_user_id, acl_stop, sem_value, waiters, tasks,
                   units, max_concurrency, stop_pc, gathered, intake, lv_in, lv_out,
                   startup, parser, p_call, group>>

\* An ORM-enabled bot class, EchoBot of bots/echo_bot or a class Bot whose
\* module directory cannot be found, with each setting of enable_storage,
\* storage_path and orm_db_path, and a new instance of it
InitDb ==
    /\ role_levels = DefaultRoleLevels
    /\ owner_user_id = 2
    /\ acl_stop = {}
    /\ max_concurrency = 1
    /\ sem_value = 1
    /\ waiters = <<>>
    /\ tasks = {}
    /\ units = <<>>
    /\ stop_pc = "idle"
    /\ gathered = {}
    /\ intake = "ended"
    /\ lv_in = NoLevelCall
    /\ lv_out = NoLevelResult
    /\ startup = Started
    /\ parser = BotParser
    /\ p_call = NoParserCall
    /\ group = NoGroup
    /\ \E cls \in {[name |-> "EchoBot", dir |-> <<"echo_bot">>], [name |-> "Bot", dir |-> <<>>]},
          enable_storage \in BOOLEAN,
          storage_path \in {<<>>, <<"">>, <<"data/kv.db">>},
          orm_db_path \in {<<>>, <<"">>, <<"data/orm.db">>} :
          db = [pc |-> "class", name |-> cls.name, dir |-> cls.dir,
                enable_storage |-> enable_storage, enable_orm |-> TRUE,
                cls_storage_path |-> storage_path, cls_orm_db_path |-> orm_db_path,
                storage_path |-> storage_path, orm_db_path |-> orm_db_path,
                ran |-> FALSE, resolved |-> <<>>]

NextDb == PostInitPaths \/ MakeMigrations

SpecDb == InitDb /\ [][NextDb]_vars

\* C39: the migration commands resolve the database path the bot uses for
\* its ORM at runtime: for every combination of enable_storage, storage_path
\* and orm_db_path of an ORM-enabled class, the path _resolve_bot_db_path
\* returns is the orm_db_path that _init_storage followed by _init_orm
\* assigns
C39_MigrationPathIsRuntimePath ==
    (db.pc = "class" /\ db.ran /\ db.resolved # <<>>)
    => db.resolved = db.orm_db_path

=============================================================================
